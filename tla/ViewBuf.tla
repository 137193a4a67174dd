------------------------------ MODULE ViewBuf ------------------------------
(* How an application draws a View (client/src/view.cc,                      *)
(* client/src/component_view.cc): what is written to it goes to a string      *)
(* buffer or to a list of components; View::sync() gives every component its    *)
(* id, registers the functions of its elements under their ids and binds its    *)
(* inputs; Client::sync() takes what is new to the others; and a viewer, which   *)
(* may look at a picture that is no longer the latest, clicks or changes an      *)
(* element by its id.  How pictures travel is in Views, what else becomes of     *)
(* functions in Funcs.  Strings are sequences of tokens, one of them the newline. *)
EXTENDS Integers, FiniteSets, SequencesExt

CONSTANTS
    Text,      \* what is written with << : non-empty sequences of tokens
    NL,        \* the newline among the tokens
    Component, \* the components that are added (TemporalViewComponent)
    NoAct,     \* no function and no InputRef
    Ref,       \* InputRefs
    Val, NoVal,
    MaxAdds,   \* bound: before how many tokens and components more may be written
    MaxSyncs   \* bound: how often the view is drawn

\* The id of a component that was given none; one that was given is <<a name>>, and that of
\* a place (LockedId) is a pair.
NoId == <<>>

\* A component: type, id, text (a string), act (a function that is called on a click, an
\* InputRef that is bound, or NoAct) and init (of an input).  What has the same id is the
\* same in every drawing (docs/54_view.md), but for the InputRef of an input.
ASSUME ComponentAssumption ==
    /\ \A text \in Text : text \in Seq(Range(text))
    /\ \A c \in Component :
          /\ c = [type |-> c.type, id |-> c.id, text |-> c.text, act |-> c.act, init |-> c.init]
          /\ c.text \in Seq(Range(c.text))
          /\ c.id \in Seq(Range(c.id)) /\ Len(c.id) <= 1
    /\ NoAct \notin Ref
    /\ \A c, d \in Component :
          c.id = d.id /\ c.id # NoId /\ NoAct \notin {c.act, d.act} =>
              c.act = d.act \/ {c.act, d.act} \subseteq Ref

VARIABLES
    str,         \* std::stringbuf of ViewBuf
    components_, \* DataSetBuffer::components_
    modified_,
    moved,       \* the components were moved out by the last onSync
    queued_funcs,   \* func_store.data_send of the names ..v<view>/<id>: of what waits under an
                 \* id, the first and the last; each is a function or the Ref that it sets
    functions,   \* func_store.data_recv: what has been taken by Client::sync()
    field,       \* InputRefState::field: the id of the Variant an InputRef is locked to
    values,      \* the Variants ..ir<view>/<id>
    queued,      \* the last picture drawn, in view_store.data_send if it is not picture
    picture,     \* the last picture that was sent
    shown,       \* the one the viewer looks at
    call,        \* the call of the viewer that has not arrived: {} or {it}
    \* Observers: what has been written since init(), and whether the documentation covers
    \* it; what has ever been drawn under an id; the last call that ran; the last value that
    \* was entered under an id; and whether every InputRef was bound once in a drawing,
    \* always under the id it was given, or always under none.
    written, covered, bound, ran, entered, bound_alike

bufVars == <<str, components_, modified_, moved>>
boundVars == <<queued_funcs, functions, bound, field, values, bound_alike>>
pictureVars == <<queued, picture>>
viewerVars == <<shown, call, entered>>
viewBufVars == <<bufVars, boundVars, pictureVars, viewerVars, ran, written, covered>>

newLine == [type |-> "newLine", id |-> NoId, text |-> <<>>, act |-> NoAct, init |-> NoVal]
plainText == [type |-> "text", id |-> NoId, text |-> <<>>, act |-> NoAct, init |-> NoVal]

\* A picture, and the observers: what was written, and whether it is covered.
NoPicture == [version |-> 0, data_ids |-> <<>>, components |-> [i \in {} |-> newLine],
              text |-> <<>>, covered |-> TRUE]
NothingWaits == [i \in {} |-> [first |-> NoAct, last |-> NoAct]]

BufInit ==
    /\ str = <<>> /\ components_ = <<>> /\ modified_ = FALSE /\ moved = FALSE
    /\ queued_funcs = NothingWaits /\ functions = [i \in {} |-> NoAct] /\ bound = {}
    /\ field = [r \in Ref |-> NoId]
    /\ values = [i \in {} |-> NoVal] /\ bound_alike = TRUE
    /\ queued = NoPicture /\ picture = NoPicture /\ shown = NoPicture /\ call = {}
    /\ written = <<>> /\ covered = TRUE
    /\ ran = {} /\ entered = [i \in {} |-> NoVal]

---------------------------------------------------------------------------
(* Writing *)

Lines(text) ==
    LET ends == {i \in DOMAIN text : text[i] = NL}
        at(k) == {i \in DOMAIN text \ ends : Cardinality({j \in ends : j < i}) = k - 1}
    IN  [k \in 1 .. Cardinality(ends) + 1 |->
            IF at(k) = {} THEN <<>> ELSE SubSeq(text, Min(at(k)), Max(at(k)))]

\* ViewBuf::addText: a component for every line that is not empty, like c but for the
\* text, and newLines between.
addText(text, c) ==
    LET lines == Lines(text)
        line(k) == IF lines[k] = <<>> THEN <<>> ELSE <<[c EXCEPT !.text = lines[k]]>>
    IN  FlattenSeq([k \in 1 .. Len(lines) |->
            line(k) \o (IF k < Len(lines) THEN <<newLine>> ELSE <<>>)])

\* ViewBuf::sync, of the stream.
Flushed == components_ \o addText(str, plainText)

\* ViewBuf::addVC
Added(c) == IF c.type = "text" THEN addText(c.text, c) ELSE <<c>>

\* What the viewer reads of a component: the text, a line break, or the label.
Reading(c) == IF c.type = "newLine" THEN <<NL>> ELSE c.text

\* Writing a drawing that may be sent: components that sync() has moved out are gone
\* before more is added, by init() or with the View ("v.init(); <- needed if v is used
\* again", docs/54_view.md).
CanDraw == /\ ~moved /\ queued.version < MaxSyncs
           /\ Len(written) < MaxAdds /\ Len(str) < MaxAdds

\* view << text
write(text) ==
    /\ CanDraw
    /\ str' = str \o text
    /\ written' = written \o text
    /\ UNCHANGED <<components_, modified_, moved, boundVars, pictureVars, viewerVars, covered>>
    /\ ran' = {}

\* An id is on one component of the drawing and on one line: "一意な文字列を指定".
Distinct(c) ==
    c.id = NoId \/ /\ \A k \in DOMAIN components_ : components_[k].id # c.id
                   /\ Len(Lines(c.text)) = 1

\* A defect that the properties exclude: the text in the stream comes after it.
addUnflushed(c) ==
    /\ CanDraw
    /\ components_' = components_ \o Added(c)
    /\ modified_' = TRUE
    /\ written' = written \o Reading(c)
    /\ covered' = (covered /\ Distinct(c))
    /\ UNCHANGED <<str, moved, boundVars, pictureVars, viewerVars>> /\ ran' = {}

\* view << component
add(c) ==
    /\ CanDraw
    /\ str' = <<>>
    /\ components_' = Flushed \o Added(c)
    /\ modified_' = TRUE
    /\ written' = written \o Reading(c)
    /\ covered' = (covered /\ Distinct(c))
    /\ UNCHANGED <<moved, boundVars, pictureVars, viewerVars>> /\ ran' = {}

\* init() leaves the string buffer as it is: text that was written before it and that
\* nothing has flushed is drawn after it.
init ==
    /\ queued.version < MaxSyncs
    /\ components_' = <<>> /\ modified_' = TRUE /\ moved' = FALSE
    /\ written' = <<>>
    /\ covered' = (str = <<>>)
    /\ UNCHANGED <<str, boundVars, pictureVars, viewerVars>> /\ ran' = {}

---------------------------------------------------------------------------
(* View::sync and DataSetBuffer<TemporalViewComponent>::onSync *)

\* TemporalViewComponent::lockTmp: its own id, or its type and its place among those
\* of the type, whether they have an id or not.
LockedId(cs, k) ==
    IF cs[k].id # NoId THEN cs[k].id
    ELSE <<cs[k].type, Cardinality({j \in 1 .. k - 1 : cs[j].type = cs[k].type})>>
Ids(cs) == [k \in DOMAIN cs |-> LockedId(cs, k)]

\* emplace keeps the first component of an id; set() and lockTo() keep the last.
Picture(cs) ==
    [version |-> queued.version + 1, data_ids |-> Ids(cs),
     components |-> [i \in Range(Ids(cs)) |-> cs[Min({k \in DOMAIN cs : Ids(cs)[k] = i})]],
     text |-> written, covered |-> covered]
Locked(cs) ==
    [r \in {cs[k].act : k \in DOMAIN cs} \cap Ref |->
        Ids(cs)[Max({k \in DOMAIN cs : cs[k].act = r})]]

\* Every InputRef is bound once in a drawing, and under an id or none as it was before.
BoundAlike(cs) ==
    \A k \in DOMAIN cs : cs[k].act \in Ref =>
        LET before == field[cs[k].act] IN
        /\ \A j \in DOMAIN cs : cs[j].act = cs[k].act => j = k
        /\ before \in {NoId, cs[k].id} \/ (cs[k].id = NoId /\ Len(before) = 2)

\* Func::set() of every component that acts, one after the other: what then waits.
Acting(cs) == {<<Ids(cs)[k], cs[k].act>> : k \in {j \in DOMAIN cs : cs[j].act # NoAct}}
Registered(cs) ==
    LET at(i) == {k \in DOMAIN cs : cs[k].act # NoAct /\ Ids(cs)[k] = i}
        new == {b[1] : b \in Acting(cs)}
        old == DOMAIN queued_funcs
    IN  [i \in new \cup old |->
            [first |-> IF i \in old THEN queued_funcs[i].first ELSE cs[Min(at(i))].act,
             last |-> IF i \in new THEN cs[Max(at(i))].act ELSE queued_funcs[i].last]]

\* A defect that the properties exclude: a value that was entered is initialised, too.
InitialisedAgain(cs) ==
    LET at(i) == {k \in DOMAIN cs : cs[k].act \in Ref /\ cs[k].init # NoVal /\ Ids(cs)[k] = i}
    IN  [i \in {j \in Range(Ids(cs)) : at(j) # {}} |-> cs[Min(at(i))].init]

\* The Variants that get a value by init(): those that have none.
Initialised(cs) ==
    LET at(i) == {k \in DOMAIN cs : cs[k].act \in Ref /\ cs[k].init # NoVal /\ Ids(cs)[k] = i}
    IN  [i \in {j \in Range(Ids(cs)) : at(j) # {}} \ DOMAIN values |-> cs[Min(at(i))].init]

\* A map of the store after the entries of new were assigned.
Assigned(new, old) ==
    [i \in DOMAIN new \cup DOMAIN old |-> IF i \in DOMAIN new THEN new[i] ELSE old[i]]

\* flush, and onSync if there is anything new.
sync ==
    LET cs == Flushed
        changed == modified_ \/ str # <<>>
    IN  /\ str' = <<>>
        /\ IF changed
           THEN /\ queued' = Picture(cs)
                /\ queued_funcs' = Registered(cs) /\ bound' = bound \cup Acting(cs)
                /\ field' = Assigned(Locked(cs), field)
                /\ values' = Assigned(Initialised(cs), values)
                /\ bound_alike' = (bound_alike /\ BoundAlike(cs))
                /\ components_' = cs /\ modified_' = FALSE
                /\ moved' = (cs # <<>>)
                /\ UNCHANGED functions
           ELSE UNCHANGED <<components_, modified_, moved, boundVars, queued>>
        /\ UNCHANGED <<picture, viewerVars, written, covered>> /\ ran' = {}

---------------------------------------------------------------------------
(* Client::sync() *)

\* transferSend of view_store and func_store: of a view the last picture is sent, of a
\* function nothing if there is one under its name, not even to the store (shouldSend).
transferSend ==
    /\ queued # picture
    /\ picture' = queued
    /\ functions' = Assigned(functions, [i \in DOMAIN queued_funcs |-> queued_funcs[i].first])
    /\ queued_funcs' = NothingWaits
    /\ UNCHANGED <<bufVars, bound, field, values, bound_alike, queued, viewerVars, written, covered>>
    /\ ran' = {}

\* getRecv of one's own: what waits, and what is stored if nothing does.
getFunc(i) == IF i \in DOMAIN queued_funcs THEN queued_funcs[i].last ELSE functions[i]

---------------------------------------------------------------------------
(* The viewer *)

look ==
    /\ shown' = picture /\ ran' = {}
    /\ UNCHANGED <<bufVars, boundVars, pictureVars, call, entered, written, covered>>

\* A click on an element, or an input: on_click->runAsync(val), by the id.
click(i, val) ==
    /\ call = {} /\ shown.components[i].act # NoAct
    /\ call' = {[id |-> i, val |-> val, seen |-> shown.components[i]]} /\ ran' = {}
    /\ UNCHANGED <<bufVars, boundVars, pictureVars, shown, entered, written, covered>>

\* The call has arrived, in sync() or loopSync(), and runs what is found under the id now:
\* the function, or that of bind(), which sets the field its InputRef is locked to now.
run ==
    \E c \in call :
        LET act == getFunc(c.id) IN
        /\ call' = {}
        /\ IF act \in Ref
           THEN /\ values' = Assigned([i \in {field[act]} |-> c.val], values)
                /\ entered' = Assigned([i \in {c.id} |-> c.val], entered)
           ELSE UNCHANGED <<values, entered>>
        /\ ran' = {[id |-> c.id, did |-> act, seen |-> c.seen]}
        /\ UNCHANGED <<bufVars, queued_funcs, functions, bound, field, bound_alike, pictureVars,
                       shown, written, covered>>

BufNext ==
    \/ \E text \in Text : write(text)
    \/ \E c \in Component : add(c)
    \/ init
    \/ sync
    \/ transferSend
    \/ look
    \/ \E i \in DOMAIN shown.components, val \in Val : click(i, val)
    \/ run

BufSpec == BufInit /\ [][BufNext]_viewBufVars

---------------------------------------------------------------------------
(* Properties *)

\* The viewer reads the last picture as it was written: the text, wherever it was cut
\* into components and lines, and the elements between it, in the order of writing.
\* (Not of a drawing before which text was left in the stream, and not if an id is on
\* two components or on a text of several lines: only its first line is sent then.)
Shown ==
    picture.covered =>
        FlattenSeq([k \in DOMAIN picture.data_ids |->
            Reading(picture.components[picture.data_ids[k]])]) = picture.text

\* What a click runs was drawn under the id of the element, and it is what the viewer saw
\* if the element was given that id (docs/54_view.md), however old the picture and wherever
\* the element is now; an input may set another InputRef that was bound under the id, the
\* first one.  An element without an id has its place for one, and what was drawn there
\* first stays (Funcs, LatestRuns): what the viewer saw runs as long as nothing else has
\* been drawn at this place.
ClickRuns ==
    \A r \in ran :
        /\ <<r.id, r.did>> \in bound
        /\ IF r.seen.id = NoId
           THEN (\A b \in bound : b[1] = r.id => b[2] = r.seen.act) => r.did = r.seen.act
           ELSE r.did = r.seen.act \/ {r.did, r.seen.act} \subseteq Ref

\* What was entered in an input with an id is what the application reads from the
\* InputRef it is bound to now, also if it was drawn again since, at another place or
\* with a new InputRef, although the call still sets the InputRef that was bound first;
\* its init() never replaces it.  (Not if an InputRef was bound to two elements, at once or
\* one after the other.)
InputKept ==
    bound_alike =>
        \A i \in DOMAIN queued.components :
            LET c == queued.components[i] IN
            c.act \in Ref /\ c.id # NoId /\ i \in DOMAIN entered =>
                values[field[c.act]] = entered[i]

\* What the viewer does with a component has the effect that the application has bound
\* to it: the two above.
EventsReach == ClickRuns /\ InputKept

---------------------------------------------------------------------------
(* The inductive strengthening *)

Token == UNION {Range(text) : text \in Text \cup {c.text : c \in Component}}
Drawable == Component \cup {newLine, plainText}
Element ==
    {d \in [type : {c.type : c \in Drawable}, id : {c.id : c \in Drawable}, text : Seq(Token),
            act : {c.act : c \in Drawable}, init : {c.init : c \in Drawable}] :
        \E c \in Drawable : d = [c EXCEPT !.text = d.text]}

BufTypeOK ==
    /\ str \in Seq(Token) /\ components_ \in Seq(Element)
    /\ {modified_, moved, covered, bound_alike} \subseteq BOOLEAN
    /\ DOMAIN field = Ref
    /\ queued.version \in Nat

\* Whether the id i is that of component c: its own, or a place.
IsIdOf(i, c) == IF c.id = NoId THEN Len(i) = 2 ELSE i = c.id

\* What was drawn under an id is of a component of this id, and what waits or is stored
\* under an id was drawn under it.
BoundByComponents == \A b \in bound :
    \E c \in Component : c.act = b[2] /\ c.act # NoAct /\ IsIdOf(b[1], c)
FunctionsBound ==
    /\ \A i \in DOMAIN queued_funcs : {<<i, queued_funcs[i].first>>, <<i, queued_funcs[i].last>>} \subseteq bound
    /\ \A i \in DOMAIN functions : <<i, functions[i]>> \in bound

\* What can be clicked was drawn under its id, and something is stored under it, or waits if
\* the picture does.
Clickable(i, c, ids) ==
    c \in Element /\ IsIdOf(i, c) /\ (c.act # NoAct => <<i, c.act>> \in bound /\ i \in ids)
PicturesRegistered ==
    /\ \A i \in DOMAIN queued.components :
          Clickable(i, queued.components[i], DOMAIN functions \cup DOMAIN queued_funcs)
    /\ \A i \in DOMAIN picture.components : Clickable(i, picture.components[i], DOMAIN functions)
    /\ \A i \in DOMAIN shown.components : Clickable(i, shown.components[i], DOMAIN functions)
    /\ \A c \in call : Clickable(c.id, c.seen, DOMAIN functions) /\ c.seen.act # NoAct

\* An InputRef that may be set is locked to the id under which it is, or to a place.
Bindings ==
    bound_alike =>
        /\ \A b \in bound : b[2] \in Ref =>
              IF Len(b[1]) = 2 THEN Len(field[b[2]]) = 2 ELSE field[b[2]] = b[1]
        /\ \A i \in DOMAIN queued.components :
              LET c == queued.components[i] IN c.act \in Ref /\ c.id # NoId => field[c.act] = i
        /\ \A i \in DOMAIN entered : Len(i) = 1 => i \in DOMAIN values /\ values[i] = entered[i]

BufInv == /\ BufTypeOK /\ BoundByComponents /\ FunctionsBound /\ PicturesRegistered
          /\ Bindings /\ ClickRuns
============================================================================
