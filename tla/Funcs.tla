-------------------------------- MODULE Funcs --------------------------------
(***************************************************************************)
(* The functions of a client (client/include/webcface/func.h, client/src/     *)
(* func.cc, func_info.cc, func_listener.cc): what is registered under a name, *)
(* what is told to the others about its argument, and what becomes of calls.   *)
(* A function has no argument or one.                                          *)
(*                                                                         *)
(* FuncInfo, and the data of an Arg that is more than a type, are shared: the   *)
(* queue of sync(), the store and the Func objects refer to the same FuncInfo,   *)
(* and setArgs() lets it refer to the data of the application's own Arg.         *)
(***************************************************************************)
EXTENDS Integers, FiniteSets, SequencesExt

CONSTANTS
    Fn,         \* names
    FnType,     \* [Fn -> the type of the argument]
    ArgObj,     \* Arg objects of the application
    FnCall,     \* the calls that are made
    MaxSets,    \* bound: how often functions are set
    MaxSetArgs  \* bound: how often setArgs is called

\* set() of any function, set() of one that takes a CallHandle, and listen().  What is set
\* with setAsync() has a thread of its own: the steps are the same.
Kind == {"set", "setHandle", "listen"}

VARIABLES
    infos,          \* all FuncInfo objects: [kind, args, and declared, what
                    \* args should say]
    func_send,      \* func_store.data_send: [Fn -> the infos that wait, in order]
    func_recv,      \* func_store.data_recv of the client itself
    published,      \* what the others know: [Fn -> a set of at most one message], and what it
                    \* should say
    to_pack,        \* the snapshot of sync(), which is packed later
    arg_objs,       \* [ArgObj -> [type, msg]], msg = 0: none
    arg_msgs,       \* all message::Arg objects: [type, limits]
    set_args,       \* history: how often setArgs was called
    twice,          \* history: an Arg or a function was used in it twice
    latest,         \* observer: [Fn -> what was set last and not freed, or 0]
    (* calls *)
    call_state,     \* [FnCall -> "unused", "running", "queued", "kept", "answered", "broken"]
    call_info,      \* the info that was called
    answers         \* observer: how often a result was sent

registerVars == <<infos, func_send, func_recv, published, to_pack, latest>>
argVars == <<arg_objs, arg_msgs, set_args, twice>>
callingVars == <<call_state, call_info, answers>>
funcsVars == <<registerVars, argVars, callingVars>>

NoArgs == [known |-> FALSE]
\* An Arg of a FuncInfo: its type, and the shared data.
OneArg(t, m) == [known |-> TRUE, type |-> t, msg |-> m]

FuncsInit ==
    /\ infos = <<>> /\ func_send = [f \in Fn |-> <<>>] /\ func_recv = [f \in Fn |-> 0]
    /\ published = [f \in Fn |-> {}] /\ to_pack = {} /\ latest = [f \in Fn |-> 0]
    /\ arg_msgs = <<>>
    /\ \E t \in [ArgObj -> {"none_", "string_"}] :
          arg_objs = [a \in ArgObj |-> [type |-> t[a], msg |-> 0]]
    /\ set_args = 0 /\ twice = FALSE
    /\ call_state = [c \in FnCall |-> "unused"] /\ call_info = [c \in FnCall |-> 0]
    /\ answers = [c \in FnCall |-> 0]

\* SyncDataStore2::getRecv of one's own: what waits, or what is stored.
getRecv(f) == IF func_send[f] # <<>> THEN Last(func_send[f]) ELSE func_recv[f]

----------------------------------------------------------------------------
(* Arg                                                                       *)

\* Limits and options exclude each other in a message.
NoLimits == [min |-> FALSE, option |-> FALSE]
NewMsg(t) == [type |-> t, limits |-> NoLimits]

\* initMsg: the data of an Arg is made when something is set that needs it.
WithMsg(arg) == IF arg.msg = 0 THEN [arg EXCEPT !.msg = Len(arg_msgs) + 1] ELSE arg
Msgs(arg) == IF arg.msg = 0 THEN Append(arg_msgs, NewMsg(arg.type)) ELSE arg_msgs

SetMin(l) == [min |-> TRUE, option |-> FALSE]
SetOption(l) == [min |-> FALSE, option |-> TRUE]

\* min() and max(), or option(), of an Arg of the application.
setLimits(a) ==
    /\ \E new \in {SetMin(NoLimits), SetOption(NoLimits)} :
         LET arg == WithMsg(arg_objs[a])
             old == Msgs(arg_objs[a])[arg.msg].limits
         IN  /\ new # old
             /\ arg_objs' = [arg_objs EXCEPT ![a] = arg]
             /\ arg_msgs' = [Msgs(arg_objs[a]) EXCEPT ![arg.msg].limits =
                                IF new.min THEN SetMin(old) ELSE SetOption(old)]
    /\ UNCHANGED <<registerVars, callingVars, set_args, twice>>

\* A defect that the properties exclude: the type is replaced if the other has none, too.
MergedTypeAlways(old, new) == new

MergedType(old, new) == IF new = "none_" THEN old ELSE new

\* mergeConfig: without data of its own the Arg of the function takes the other's, and
\* writes its type into it; otherwise what the other has is copied, except for the type.
mergeConfig(mine, other) ==
    LET t == MergedType(mine.type, other.type)
        limits == arg_msgs[other.msg].limits
    IN  IF other.msg = 0 THEN [arg |-> [mine EXCEPT !.type = t], msgs |-> arg_msgs]
        ELSE IF mine.msg = 0
        THEN [arg |-> [mine EXCEPT !.type = t, !.msg = other.msg],
              msgs |-> [arg_msgs EXCEPT ![other.msg].type = t]]
        ELSE [arg |-> [mine EXCEPT !.type = t],
              msgs |-> IF limits = NoLimits THEN arg_msgs
                       ELSE [arg_msgs EXCEPT ![mine.msg].limits =
                                IF limits.option THEN SetOption(@) ELSE SetMin(@)]]

\* setArgs of a function that has been set; with a wrong number there is an exception.
setArgs(f, a) ==
    /\ set_args < MaxSetArgs /\ set_args' = set_args + 1
    /\ getRecv(f) # 0
    /\ LET i == getRecv(f)
           args == infos[i].args
           merged == mergeConfig(args, arg_objs[a])
           given == OneArg(arg_objs[a].type, arg_objs[a].msg)
       IN  /\ infos' = [infos EXCEPT
                 ![i].args = IF args.known THEN merged.arg ELSE given,
                 ![i].declared = OneArg(IF args.known /\ given.type = "none_" THEN @.type
                                        ELSE given.type, 0)]
           /\ arg_msgs' = IF args.known THEN merged.msgs ELSE arg_msgs
           /\ twice' = (twice \/ \E j \in DOMAIN infos :
                            /\ infos[j].args.known /\ infos[j].args.msg # 0
                            /\ (j = i \/ infos[j].args.msg = arg_objs[a].msg))
    /\ UNCHANGED <<func_send, func_recv, published, to_pack, latest, arg_objs, callingVars>>

----------------------------------------------------------------------------
(* Registration                                                              *)

\* The arguments that are known of a function from the beginning.
KnownArgs(kind, t) == IF kind = "setHandle" THEN NoArgs ELSE OneArg(t, 0)

setFunc(f, kind) ==
    /\ Len(infos) < MaxSets
    /\ infos' = Append(infos, [kind |-> kind, args |-> KnownArgs(kind, FnType[f]),
                               declared |-> KnownArgs(kind, FnType[f])])
    /\ func_send' = [func_send EXCEPT ![f] = Append(@, Len(infos'))]
    /\ latest' = [latest EXCEPT ![f] = Len(infos')]
    /\ UNCHANGED <<func_recv, published, to_pack, argVars, callingVars>>

\* free() does not look at what waits for sync().
free(f) ==
    /\ func_recv[f] # 0
    /\ func_recv' = [func_recv EXCEPT ![f] = 0]
    /\ latest' = [latest EXCEPT ![f] = IF func_send[f] # <<>> THEN @ ELSE 0]
    /\ UNCHANGED <<infos, func_send, published, to_pack, argVars, callingVars>>

\* transferSend: a function that is there already, be it one of those that waited, is
\* neither sent nor replaced (shouldSend).
syncFuncs ==
    /\ to_pack = {}
    /\ LET new == {f \in Fn : func_send[f] # <<>> /\ func_recv[f] = 0}
       IN  /\ func_recv' = [f \in Fn |-> IF f \in new THEN Head(func_send[f]) ELSE func_recv[f]]
           /\ to_pack' = {<<f, Head(func_send[f])>> : f \in new}
    /\ func_send' = [f \in Fn |-> <<>>]
    /\ UNCHANGED <<infos, published, latest, argVars, callingVars>>

\* toMessage, by the communication thread, of one function after the other: what the shared
\* objects say then.  An Arg without data gets some.
packFunc(p) ==
    LET f == p[1]  i == p[2]
        args == infos[i].args
        told == IF args.known THEN [known |-> TRUE, msg |-> Msgs(args)[WithMsg(args).msg]]
                ELSE [known |-> FALSE]
    IN  /\ published' = [published EXCEPT ![f] = {[told |-> told, meant |-> infos[i].declared]}]
        /\ to_pack' = to_pack \ {p}
        /\ IF args.known
           THEN infos' = [infos EXCEPT ![i].args = WithMsg(args)] /\ arg_msgs' = Msgs(args)
           ELSE UNCHANGED <<infos, arg_msgs>>
        /\ UNCHANGED <<func_send, func_recv, latest, arg_objs, set_args, twice, callingVars>>

----------------------------------------------------------------------------
(* Calls                                                                     *)

\* assertArgsNum: of a function that takes a CallHandle, as many as setArgs() has said.
\* (FuncListener has one here.)
Expected(i) == IF infos[i].kind = "setHandle" /\ ~infos[i].args.known THEN 0 ELSE 1

Answer(c) == /\ call_state' = [call_state EXCEPT ![c] = "answered"]
             /\ answers' = [answers EXCEPT ![c] = @ + 1]
Becomes(c, s) == call_state' = [call_state EXCEPT ![c] = s] /\ UNCHANGED answers

\* A defect that the properties exclude: a call with a wrong number is rejected and run.
callFuncAnyway(c, f, n) ==
    /\ call_state[c] = "unused"
    /\ LET i == getRecv(f)
       IN  /\ call_info' = [call_info EXCEPT ![c] = i]
           /\ IF i = 0 THEN Answer(c)
              ELSE /\ call_state' = [call_state EXCEPT ![c] =
                          IF infos[i].kind = "listen" THEN "queued" ELSE "running"]
                   /\ answers' = [answers EXCEPT ![c] = IF n # Expected(i) THEN @ + 1 ELSE @]
    /\ UNCHANGED <<registerVars, argVars>>

\* A call of another member, or the client's own: without a function, or with a wrong number
\* of arguments, it is answered at once; the queue of a listener takes it; otherwise the
\* function is called, which takes a while if it has a thread of its own.
callFunc(c, f, n) ==
    /\ call_state[c] = "unused"
    /\ LET i == getRecv(f)
       IN  /\ call_info' = [call_info EXCEPT ![c] = i]
           /\ IF i = 0 \/ n # Expected(i) THEN Answer(c)
              ELSE Becomes(c, IF infos[i].kind = "listen" THEN "queued" ELSE "running")
    /\ UNCHANGED <<registerVars, argVars>>

\* tryRun: what the function returns is the response, what it throws the rejection.
plainReturns(c) ==
    /\ call_state[c] = "running" /\ infos[call_info[c]].kind = "set"
    /\ Answer(c)
    /\ UNCHANGED <<registerVars, argVars, call_info>>

\* A function that takes the handle answers and returns, or it keeps the handle for later.
handleReturns(c) ==
    /\ call_state[c] = "running" /\ infos[call_info[c]].kind = "setHandle"
    /\ Answer(c) \/ Becomes(c, "kept")
    /\ UNCHANGED <<registerVars, argVars, call_info>>
\* catchAll: an exception rejects the call, if it has not been answered before.  If it has,
\* reject() throws in its turn: in a thread of its own this is the end of the program;
\* otherwise it leaves sync(), before onFinish is there to send the answer.
handleThrows(c) ==
    /\ call_state[c] = "running" /\ infos[call_info[c]].kind = "setHandle"
    /\ Answer(c) \/ Becomes(c, "broken")
    /\ UNCHANGED <<registerVars, argVars, call_info>>

\* FuncListener::fetchCall
fetchCall(c) ==
    /\ call_state[c] = "queued" /\ Becomes(c, "kept")
    /\ UNCHANGED <<registerVars, argVars, call_info>>
\* respond() or reject() of a handle that was kept; whoever does it again gets an exception.
answerLater(c) ==
    /\ call_state[c] = "kept" /\ Answer(c)
    /\ UNCHANGED <<registerVars, argVars, call_info>>

----------------------------------------------------------------------------
FuncsNext ==
    \/ \E a \in ArgObj : setLimits(a)
    \/ \E f \in Fn : \/ \E kind \in Kind : setFunc(f, kind)
                     \/ \E a \in ArgObj : setArgs(f, a)
                     \/ free(f)
                     \/ \E c \in FnCall, n \in 0 .. 1 : callFunc(c, f, n)
    \/ syncFuncs \/ \E p \in to_pack : packFunc(p)
    \/ \E c \in FnCall : \/ plainReturns(c) \/ handleReturns(c) \/ handleThrows(c)
                         \/ fetchCall(c) \/ answerLater(c)

FuncsSpec == FuncsInit /\ [][FuncsNext]_funcsVars

----------------------------------------------------------------------------
(* Properties.                                                             *)

\* What the others are told of an argument is what the function has: its type, and
\* not both limits and options, although the application's Arg objects, which only add to
\* it, go on changing, and are read when the message is packed.  (Unless an Arg is given
\* to two functions, or a function gets Args twice; then the type of one is written into
\* what is told of the other, or the later one is not told at all.)
SignatureTold ==
    \A f \in Fn : \A p \in published[f] :
        p.told.known =>
            /\ ~(p.told.msg.limits.min /\ p.told.msg.limits.option)
            /\ ~twice => p.told.msg.type = p.meant.type

\* Every call is answered once: it has been, or somebody still holds what can answer it,
\* unless the function has thrown an exception after it had answered.
CallsAnswered ==
    \A c \in FnCall :
        answers[c] = IF call_state[c] = "answered" THEN 1 ELSE 0

----------------------------------------------------------------------------
(* The inductive strengthening of the properties.                          *)

Type == {"none_", "string_"} \cup {FnType[f] : f \in Fn}
ArgMsg == [type : Type, limits : {NoLimits, SetMin(NoLimits), SetOption(NoLimits)}]
Args == {NoArgs} \cup [known : {TRUE}, type : Type, msg : 0 .. Len(arg_msgs)]
Info == {i \in [kind : Kind, args : Args, declared : Args] : i.args.known <=> i.declared.known}

FuncsTypeOK ==
    /\ infos \in Seq(Info)
    /\ func_send \in [Fn -> Seq(DOMAIN infos)] /\ func_recv \in [Fn -> {0} \cup DOMAIN infos]
    /\ to_pack \subseteq Fn \X DOMAIN infos
    /\ arg_msgs \in Seq(ArgMsg)
    /\ arg_objs \in [ArgObj -> [type : Type, msg : 0 .. Len(arg_msgs)]]
    /\ twice \in BOOLEAN
    /\ DOMAIN published = Fn
    /\ \A f \in Fn : \A p \in published[f] : p.told.known => p.told.msg \in ArgMsg
    /\ call_state \in [FnCall -> {"unused", "running", "queued", "kept", "answered", "broken"}]
    /\ answers \in [FnCall -> Nat]

\* What has the message m for its argument.
Has(i, m) == infos[i].args.known /\ infos[i].args.msg = m

\* The type that is told of a function is the one it was declared with, in the FuncInfo and
\* in the data it refers to.
ArgsDeclared == \A i \in DOMAIN infos :
    LET args == infos[i].args IN
    args.known => /\ args.type = infos[i].declared.type
                  /\ args.msg # 0 => arg_msgs[args.msg].type = args.type

\* No two functions refer to the same data, nor two Args of the application; and the data
\* of such an Arg has its type as long as it has not been given to a function.
OwnMsg ==
    /\ \A i, j \in DOMAIN infos : \A m \in DOMAIN arg_msgs : Has(i, m) /\ Has(j, m) => i = j
    /\ \A a, b \in ArgObj : arg_objs[a].msg # 0 /\ arg_objs[a].msg = arg_objs[b].msg => a = b
    /\ \A a \in ArgObj : LET m == arg_objs[a].msg IN
          m # 0 => arg_msgs[m].type = arg_objs[a].type \/ \E i \in DOMAIN infos : Has(i, m)

ToldIsMeant == \A f \in Fn : \A p \in published[f] :
    p.told.known => p.told.msg.type = p.meant.type

FuncsInv ==
    /\ FuncsTypeOK /\ CallsAnswered
    /\ ~twice => ArgsDeclared /\ OwnMsg /\ ToldIsMeant

----------------------------------------------------------------------------
\* Statements of the repository that the code does not satisfy.

\* What is called is the function that was set last (docs/53_func.md:44), unless it has
\* been freed since.
LatestRuns == \A f \in Fn : getRecv(f) = latest[f]
============================================================================
