------------------------------- MODULE Strings -------------------------------
(* SharedString (common/src/encoding.cc): one text in up to three encodings, utf-8,  *)
(* the narrow one of the system and the wide one, kept in a data object that every   *)
(* copy of the string shares.  An encoding is filled when it is first asked for and  *)
(* never written again, so that the pointers given out stay good; a conversion reads *)
(* one that is filled already.  A conversion runs under the data's own mutex         *)
(* (data->m), so it is one step.  empty() and operator== look without it at what is  *)
(* filled: that they race with a conversion in another thread is left out, and ==    *)
(* is one step with the two conversions that it makes.  A view lies in the object's  *)
(* own buffer or in a literal of the program.                                        *)
(*                                                                                   *)
(* The narrow encoding cannot write every character (Wide): the conversion puts a    *)
(* "?" there.  It is in use on Windows after usingUTF8(false); elsewhere the flag    *)
(* has no effect.                                                                    *)
EXTENDS Integers, Sequences, FiniteSets, SequencesExt

CONSTANTS Str,          \* the variables of type SharedString
          View,         \* the variables of type StringView and WStringView
          MaxObjects,   \* bound: the objects made; their addresses are 1 .. MaxObjects
          StrText,      \* the texts that strings are made of
          Literal,      \* those of the program's literals (one address for each)
          NoData,       \* nullptr
          Freed         \* what is at an address after its object

StrData == 1 .. MaxObjects

\* The characters there are, with those that are put in place of others below.
Spelt == UNION {{text[i] : i \in DOMAIN text} : text \in StrText \cup Literal}
Chars == Spelt \cup {"?", "."}
ASSUME StringAssumption ==
    /\ StrText \cup Literal \subseteq Seq(Chars)
    /\ MaxObjects \in Nat
    /\ NoData \notin StrData
    /\ NoData \notin [{"u8", "s", "ws"} -> [at : {0} \cup StrData, text : Seq(Chars)]]

VARIABLES windows,      \* WEBCFACE_SYSTEM_WCHAR_WINDOWS
          using_utf8,
          objects,      \* address -> the object there, NoData before it, Freed after it
          str_data,     \* SharedString::data
          views,        \* what each view refers to, or NoData
          literal_caches, \* one for each encoding: literal -> address, or NoData
          spelt         \* (history) the text each string was made of

stringVars == <<windows, using_utf8, objects, str_data, views, literal_caches, spelt>>

Wide == "w"
Encoding == {"u8", "s", "ws"}

\* What the text reads like in an encoding.
Written(enc, text) ==
    IF enc = "s" THEN [i \in DOMAIN text |-> IF text[i] = Wide THEN "?" ELSE text[i]] ELSE text

\* A view (u8sv, sv, wsv) into the buffer of the object at `at`, or a literal.
Slot(at, text) == [at |-> at, text |-> text]
NewObject(d, enc, at, text) ==
    [e \in Encoding |-> IF e = enc THEN Slot(at, text) ELSE Slot(d, <<>>)]
Static == 0

\* An address in use: a string, a view or a cache refers to it.
Live(d) ==
    \/ \E h \in Str : str_data[h] = d
    \/ \E v \in View : views[v] # NoData /\ views[v].data = d
    \/ \E e \in Encoding, l \in Literal : literal_caches[e][l] = d

StringsInit ==
    /\ windows \in BOOLEAN
    /\ using_utf8 = TRUE
    /\ objects = [d \in StrData |-> NoData]
    /\ str_data = [h \in Str |-> NoData]
    /\ views = [v \in View |-> NoData]
    /\ literal_caches = [e \in Encoding |-> [l \in Literal |-> NoData]]
    /\ spelt = [h \in Str |-> <<>>]

\* usingUTF8(flag).
usingUTF8 ==
    /\ using_utf8' = ~using_utf8
    /\ UNCHANGED <<windows, objects, str_data, views, literal_caches, spelt>>

\* std::string is utf-8, except on Windows when the application says so.
Narrow == IF windows /\ ~using_utf8 THEN "s" ELSE "u8"

\* The address that std::make_shared<SharedStringData> uses next; none is used again, so
\* that what refers to a freed object is seen to.
HasFree == \E d \in StrData : objects[d] = NoData
Free == CHOOSE d \in StrData : objects[d] = NoData /\ \A e \in 1 .. d - 1 : objects[e] # NoData
\* The objects that nothing refers to any more are freed (the shared_ptr's destructor).
Become(changed) ==
    objects' = [d \in StrData |->
        IF Live(d)' THEN changed[d] ELSE IF changed[d] = NoData THEN NoData ELSE Freed]

\* h is given the new object and the text.
Given(h, d, text) ==
    /\ str_data' = [str_data EXCEPT ![h] = d]
    /\ spelt' = [spelt EXCEPT ![h] = text]

\* A text that the encoding can write: one that a program can hold in it.
Lossless(enc, text) == Written(enc, text) = text

\* SharedString::encode(std::string), encode(std::wstring), fromU8String.
encode(h) ==
    \E text \in StrText, enc \in {Narrow, "u8", "ws"} :
        /\ HasFree /\ Lossless(enc, text)
        /\ Given(h, Free, text)
        /\ UNCHANGED <<windows, using_utf8, views, literal_caches>>
        /\ Become([objects EXCEPT ![Free] = NewObject(Free, enc, Free, text)])

\* encodeStatic (fromU8StringStatic where std::string is utf-8): the object made for a literal is found again by its
\* address; there is a cache for each encoding.
encodeStatic(h) ==
    \E l \in Literal, enc \in {Narrow, "ws"} :
        /\ Lossless(enc, l)
        /\ UNCHANGED <<windows, using_utf8, views>>
        /\ IF literal_caches[enc][l] # NoData
           THEN /\ Given(h, literal_caches[enc][l], l)
                /\ UNCHANGED literal_caches
                /\ Become(objects)
           ELSE /\ HasFree
                /\ Given(h, Free, l)
                /\ literal_caches' = [literal_caches EXCEPT ![enc][l] = Free]
                /\ Become([objects EXCEPT ![Free] = NewObject(Free, enc, Static, l)])

\* Copying a SharedString copies the pointer.
copy(h, k) ==
    /\ Given(h, str_data[k], spelt[k])
    /\ UNCHANGED <<windows, using_utf8, views, literal_caches>>
    /\ Become(objects)

Filled(o, enc) == o[enc].text # <<>>
\* encodeWsToU8s, encodeSToWs, decodeU8sToWs, decodeWsToS: fill one encoding from another,
\* in the object's own buffer.
Convert(o, d, from, to) == [o EXCEPT ![to] = Slot(d, Written(to, o[from].text))]

\* u8StringView() and u8StringViewShare().
FillU8(o, d) ==
    IF Filled(o, "u8") THEN o
    ELSE IF Filled(o, "ws") THEN Convert(o, d, "ws", "u8")
    ELSE IF Filled(o, "s") THEN Convert(Convert(o, d, "s", "ws"), d, "ws", "u8")
    ELSE o
\* decodeW() and decodeShareW().
FillW(o, d) ==
    IF Filled(o, "ws") THEN o
    ELSE IF Filled(o, "u8") THEN Convert(o, d, "u8", "ws")
    ELSE IF Filled(o, "s") THEN Convert(o, d, "s", "ws")
    ELSE o
\* decode() and decodeShare() where std::string is not utf-8.
FillS(o, d) ==
    IF Filled(o, "s") THEN o
    ELSE IF Filled(o, "ws") THEN Convert(o, d, "ws", "s")
    ELSE IF Filled(o, "u8") THEN Convert(Convert(o, d, "u8", "ws"), d, "ws", "s")
    ELSE o
Fill(enc, o, d) == CASE enc = "u8" -> FillU8(o, d) [] enc = "ws" -> FillW(o, d) [] enc = "s" -> FillS(o, d)

\* decodeShare(), u8StringViewShare(), decodeShareW(): a view that keeps the object.
share(h, v) ==
    LET d == str_data[h] IN
    \E enc \in {Narrow, "u8", "ws"} :
        /\ d # NoData
        /\ views' = [views EXCEPT ![v] = [data |-> d, enc |-> enc, slot |-> Fill(enc, objects[d], d)[enc]]]
        /\ UNCHANGED <<windows, using_utf8, str_data, literal_caches, spelt>>
        /\ Become([objects EXCEPT ![d] = Fill(enc, @, d)])
\* The view's destructor.
release(v) ==
    /\ views[v] # NoData
    /\ views' = [views EXCEPT ![v] = NoData]
    /\ UNCHANGED <<windows, using_utf8, str_data, literal_caches, spelt>>
    /\ Become(objects)

\* empty().
IsEmpty(h) == str_data[h] = NoData \/ \A e \in Encoding : ~Filled(objects[str_data[h]], e)

\* operator==: the encoding that both strings are compared in.
ComparedIn(h, k) ==
    LET has(e) == Filled(objects[str_data[h]], e) \/ Filled(objects[str_data[k]], e) IN
    IF has("ws") THEN "ws" ELSE IF has("u8") THEN "u8" ELSE Narrow
Same(h, k) ==
    IF IsEmpty(h) \/ IsEmpty(k) THEN IsEmpty(h) /\ IsEmpty(k)
    ELSE LET enc == ComparedIn(h, k)
             read(x) == Fill(enc, objects[str_data[x]], str_data[x])[enc].text
         IN  read(h) = read(k)
compare(h, k) ==
    /\ ~IsEmpty(h) /\ ~IsEmpty(k)
    /\ UNCHANGED <<windows, using_utf8, str_data, views, literal_caches, spelt>>
    /\ Become([d \in StrData |-> IF d \in {str_data[h], str_data[k]}
                                THEN Fill(ComparedIn(h, k), objects[d], d) ELSE objects[d]])

\* substr(1): a new string of utf-8 (find() and startsWith() only read).
substr(h) ==
    LET d == str_data[h]
        u8 == FillU8(objects[d], d)["u8"].text
    IN  /\ d # NoData /\ HasFree
        /\ u8 # <<>>
        /\ Given(h, Free, Tail(spelt[h]))
        /\ UNCHANGED <<windows, using_utf8, views, literal_caches>>
        /\ Become([objects EXCEPT ![d] = FillU8(@, d),
                                  ![Free] = NewObject(Free, "u8", Free, Tail(u8))])

\* '/' in front is taken away, the others become '.'.
Alt == "/"
Leading(text) == Cardinality({i \in DOMAIN text : \A j \in 1 .. i : text[j] = Alt})
Normal(text) ==
    LET rest == SubSeq(text, Leading(text) + 1, Len(text)) IN [i \in DOMAIN rest |-> IF rest[i] = Alt THEN "." ELSE rest[i]]
HasAlt(text) == \E i \in DOMAIN text : text[i] = Alt
\* A defect that the properties exclude: only the utf-8 text is changed.
U8HasAlt(enc, text) == enc = "u8" /\ HasAlt(text)
\* An encoding is changed when it has a '/'; those not filled have none.
IsReplaced(enc, text) == HasAlt(text)

\* The copy constructor: what lay in the other object's buffer is copied into the new
\* one's, a view of a literal stays one.
CopyOf(o, d, e) == [enc \in Encoding |-> Slot(IF o[enc].at = d THEN e ELSE o[enc].at, o[enc].text)]

\* normalizeSeparator(): h gets an object of its own when there is something to replace.
\* Each encoding is changed in the new object's buffer.
normalizeSeparator(h) ==
    LET d == str_data[h]
        new == CopyOf(objects[d], d, Free)
    IN  /\ d # NoData /\ HasFree
        /\ \E enc \in Encoding : IsReplaced(enc, objects[d][enc].text)
        /\ Given(h, Free, Normal(spelt[h]))
        /\ UNCHANGED <<windows, using_utf8, views, literal_caches>>
        /\ Become([objects EXCEPT ![Free] = [enc \in Encoding |->
               IF IsReplaced(enc, new[enc].text) THEN Slot(Free, Normal(new[enc].text)) ELSE new[enc]]])

StringsNext ==
    \/ usingUTF8
    \/ \E h \in Str : encode(h) \/ encodeStatic(h) \/ substr(h) \/ normalizeSeparator(h)
    \/ \E h \in Str : \E k \in Str \ {h} : copy(h, k) \/ compare(h, k)
    \/ \E h \in Str, v \in View : share(h, v)
    \/ \E v \in View : release(v)
StringsSpec == StringsInit /\ [][StringsNext]_stringVars

----------------------------------------------------------------------------
\* A string reads as the text it was made of in every encoding, filled or not; so does a
\* view, whose characters lie where nothing is freed or written; and two strings are equal
\* (operator==) exactly when their texts are, whatever encodings they were made in and have
\* filled.  Sharing, the literals' caches, the order of the conversions and
\* normalizeSeparator() of one of the strings that share an object change no other's text.
Reads(enc, text, slot, d) == slot.text = Written(enc, text) /\ slot.at \in {d, Static}
TextKept ==
    /\ \A h \in Str, enc \in Encoding :
          str_data[h] # NoData =>
              LET d == str_data[h] IN
              /\ Reads(enc, spelt[h], Fill(enc, objects[d], d)[enc], d)
              /\ Filled(objects[d], enc) => Reads(enc, spelt[h], objects[d][enc], d)
    /\ \A v \in View :
          views[v] # NoData =>
              /\ objects[views[v].data][views[v].enc] = views[v].slot
              /\ views[v].slot.at \in {views[v].data, Static}
    /\ \A h, k \in Str : Same(h, k) <=> (spelt[h] = spelt[k])

----------------------------------------------------------------------------
(* The inductive strengthening of TextKept.                                 *)

\* The object at d is one of a text: each encoding that is filled spells it, and one of
\* them can write all of it.
IsObject(o, d, text) ==
    /\ o \in [Encoding -> [at : {d, Static}, text : Seq(Chars)]]
    /\ \A enc \in Encoding : Filled(o, enc) => o[enc].text = Written(enc, text)
    /\ \/ text = <<>> \/ Filled(o, "u8") \/ Filled(o, "ws")
       \/ Filled(o, "s") /\ Lossless("s", text)

StringsTypeOK ==
    /\ windows \in BOOLEAN /\ using_utf8 \in BOOLEAN
    /\ DOMAIN objects = StrData
    /\ str_data \in [Str -> StrData \cup {NoData}] /\ spelt \in [Str -> Seq(Chars)]
    /\ DOMAIN views = View
    /\ literal_caches \in [Encoding -> [Literal -> StrData \cup {NoData}]]

\* A view sees an encoding that is filled, so that it is not written again.
IsView(object, view) ==
    /\ view.data \in StrData /\ view.enc \in Encoding
    /\ object[view.data][view.enc] = view.slot
    /\ \E text \in {object[view.data][enc].text : enc \in Encoding} :
          /\ IsObject(object[view.data], view.data, text)
          /\ Filled(object[view.data], view.enc) \/ text = <<>>

StringsInv ==
    /\ StringsTypeOK
    /\ \A h \in Str : IF str_data[h] = NoData THEN spelt[h] = <<>>
                        ELSE IsObject(objects[str_data[h]], str_data[h], spelt[h])
    /\ \A enc \in Encoding, l \in Literal :
          LET d == literal_caches[enc][l] IN d # NoData => IsObject(objects[d], d, l)
    /\ \A v \in View : views[v] # NoData => IsView(objects, views[v])
============================================================================
