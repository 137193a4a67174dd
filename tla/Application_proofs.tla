-------------------------- MODULE Application_proofs ---------------------------
(* Proofs about what an application does with the objects of the library in its *)
(* own process: the functions it registers, their arguments and the calls that a *)
(* listener is given, the pointers of the C API, the robot models it builds, the   *)
(* strings it copies, views and compares, and the views it draws.  Every theorem   *)
(* holds for any number of objects and calls; the bounds of the modules, which TLC *)
(* needs, may be any.                                                               *)
EXTENDS ServerStore_proofs, Funcs, CApi, Robots, Strings, ViewBuf, FiniteSetTheorems

LEMMA SeqElement ==
    ASSUME NEW S, NEW q \in Seq(S), NEW i \in DOMAIN q
    PROVE  q[i] \in S
OBVIOUS

(***************************************************************************)
(* Funcs                                                                     *)
(***************************************************************************)

CallStates == {"unused", "running", "queued", "kept", "answered", "broken"}

LEMMA FuncsInitInv == FuncsInit => FuncsInv
<1> SUFFICES ASSUME FuncsInit PROVE FuncsInv
  OBVIOUS
<1> USE DEF FuncsInit
<1>1. FuncsTypeOK
  <2>1. infos \in Seq(Info) /\ arg_msgs \in Seq(ArgMsg)
    OBVIOUS
  <2>4. func_recv \in [Fn -> {0} \cup DOMAIN infos]
    OBVIOUS
  <2>5. to_pack \subseteq Fn \X DOMAIN infos /\ twice \in BOOLEAN
    OBVIOUS
  <2>6. /\ call_state \in [FnCall -> {"unused", "running", "queued", "kept", "answered", "broken"}]
        /\ answers \in [FnCall -> Nat]
        /\ DOMAIN published = Fn
        /\ \A f \in Fn : \A p \in published[f] : p.told.known => p.told.msg \in ArgMsg
    OBVIOUS
  <2>2. arg_objs \in [ArgObj -> [type : Type, msg : 0 .. Len(arg_msgs)]]
    <3>1. Len(arg_msgs) = 0
      OBVIOUS
    <3>2. PICK t \in [ArgObj -> {"none_", "string_"}] :
             arg_objs = [a \in ArgObj |-> [type |-> t[a], msg |-> 0]]
      OBVIOUS
    <3>3. \A a \in ArgObj : t[a] \in Type
      BY <3>2 DEF Type
    <3>. QED  BY <3>1, <3>2, <3>3
  <2>3. func_send \in [Fn -> Seq(DOMAIN infos)]
    <3>1. <<>> \in Seq(DOMAIN infos)
      OBVIOUS
    <3>. QED  BY <3>1
  <2>. HIDE DEF FuncsInit
  <2>. QED  BY <2>1, <2>2, <2>3, <2>4, <2>5, <2>6 DEF FuncsTypeOK
<1>2. CallsAnswered
  BY DEF CallsAnswered
<1>3. ArgsDeclared /\ OwnMsg /\ ToldIsMeant
  BY DEF ArgsDeclared, OwnMsg, ToldIsMeant
<1>. QED  BY <1>1, <1>2, <1>3 DEF FuncsInv

\* What is called: a function that is there, or none.
LEMMA GetRecvType ==
    ASSUME FuncsTypeOK, NEW f \in Fn
    PROVE  getRecv(f) \in {0} \cup DOMAIN infos
<1>1. func_send[f] \in Seq(DOMAIN infos) /\ func_recv[f] \in {0} \cup DOMAIN infos
  BY DEF FuncsTypeOK
<1>2. func_send[f] # <<>> => Last(func_send[f]) \in DOMAIN infos
  BY <1>1 DEF Last
<1>. QED  BY <1>1, <1>2 DEF getRecv

----------------------------------------------------------------------------
(* Calls                                                                     *)

\* The steps of a call answer it, or leave it unanswered.
LEMMA CallStepInv ==
    ASSUME FuncsInv, UNCHANGED <<registerVars, argVars>>, NEW c \in FnCall,
           \/ Answer(c) /\ call_state[c] # "answered"
           \/ \E s \in CallStates \ {"answered"} : call_state[c] # "answered" /\ Becomes(c, s)
    PROVE  FuncsInv'
<1>1. UNCHANGED <<infos, func_send, func_recv, to_pack, arg_msgs, arg_objs, twice, published>>
  BY DEF registerVars, argVars
<1>2. /\ call_state' \in [FnCall -> CallStates] /\ answers' \in [FnCall -> Nat]
      /\ CallsAnswered'
  <2>1. /\ call_state \in [FnCall -> CallStates] /\ answers \in [FnCall -> Nat]
        /\ CallsAnswered
    BY DEF FuncsInv, FuncsTypeOK, CallStates
  <2>2. CASE Answer(c) /\ call_state[c] # "answered"
    <3>1. answers[c] = 0
      BY <2>1, <2>2 DEF CallsAnswered
    <3>. QED  BY <2>1, <2>2, <3>1 DEF Answer, CallsAnswered, CallStates
  <2>3. ASSUME NEW s \in CallStates \ {"answered"}, call_state[c] # "answered", Becomes(c, s)
        PROVE  /\ call_state' \in [FnCall -> CallStates] /\ answers' \in [FnCall -> Nat]
               /\ CallsAnswered'
    BY <2>1, <2>3 DEF Becomes, CallsAnswered
  <2>. QED  BY <2>2, <2>3
<1>3. FuncsTypeOK'
  BY <1>1, <1>2 DEF FuncsInv, FuncsTypeOK, CallStates, Args, Info
<1>4. ~twice' => ArgsDeclared' /\ OwnMsg' /\ ToldIsMeant'
  BY <1>1 DEF FuncsInv, ArgsDeclared, OwnMsg, ToldIsMeant, Has
<1>. QED  BY <1>2, <1>3, <1>4 DEF FuncsInv

LEMMA CallsInv ==
    ASSUME FuncsInv, NEW c \in FnCall,
           \/ \E f \in Fn, n \in 0 .. 1 : callFunc(c, f, n)
           \/ plainReturns(c) \/ handleReturns(c) \/ handleThrows(c)
           \/ fetchCall(c) \/ answerLater(c)
    PROVE  FuncsInv'
<1>1. CASE \E f \in Fn, n \in 0 .. 1 : callFunc(c, f, n)
  <2>1. /\ UNCHANGED <<registerVars, argVars>> /\ call_state[c] = "unused"
        /\ Answer(c) \/ Becomes(c, "queued") \/ Becomes(c, "running")
    BY <1>1 DEF callFunc
  <2>. QED  BY <2>1, CallStepInv DEF CallStates
<1>2. CASE plainReturns(c) \/ answerLater(c)
  BY <1>2, CallStepInv DEF plainReturns, answerLater, CallStates
<1>3. CASE handleReturns(c) \/ handleThrows(c) \/ fetchCall(c)
  BY <1>3, CallStepInv DEF handleReturns, handleThrows, fetchCall, CallStates
<1>. QED  BY <1>1, <1>2, <1>3

----------------------------------------------------------------------------
(* Registration and arguments                                                *)

\* The parts of the invariant that are not about calls.
LEMMA RegisterInv ==
    ASSUME FuncsInv, UNCHANGED callingVars,
           infos' \in Seq(Info'),
           func_send' \in [Fn -> Seq(DOMAIN infos')],
           func_recv' \in [Fn -> {0} \cup DOMAIN infos'],
           to_pack' \subseteq Fn \X DOMAIN infos',
           arg_msgs' \in Seq(ArgMsg),
           arg_objs' \in [ArgObj -> [type : Type, msg : 0 .. Len(arg_msgs')]],
           twice' \in BOOLEAN,
           DOMAIN published' = Fn,
           \A f \in Fn : \A p \in published'[f] : p.told.known => p.told.msg \in ArgMsg,
           ~twice' => ArgsDeclared' /\ OwnMsg' /\ ToldIsMeant'
    PROVE  FuncsInv'
<1>1. UNCHANGED <<call_state, answers>>
  BY DEF callingVars
<1>2. FuncsTypeOK' /\ CallsAnswered'
  BY <1>1 DEF FuncsInv, FuncsTypeOK, CallsAnswered
<1>. QED  BY <1>2 DEF FuncsInv

\* A FuncInfo, and what it tells of its argument.
LEMMA InfoType ==
    ASSUME FuncsTypeOK, NEW i \in DOMAIN infos
    PROVE  /\ infos[i] \in Info
           /\ infos[i].args.known => /\ infos[i].args.type \in Type
                                     /\ infos[i].args.msg \in 0 .. Len(arg_msgs)
<1>1. infos[i] \in Info
  <2>1. infos \in Seq(Info)
    BY DEF FuncsTypeOK
  <2>. QED  BY <2>1, SeqElement
<1>2. infos[i].args \in Args
  BY <1>1 DEF Info
<1>3. ASSUME NEW args \in Args, args.known PROVE args.type \in Type /\ args.msg \in 0 .. Len(arg_msgs)
  <2>1. ~NoArgs.known
    BY DEF NoArgs
  <2>2. args \in [known : {TRUE}, type : Type, msg : 0 .. Len(arg_msgs)]
    BY <1>3, <2>1 DEF Args
  <2>. QED  BY <2>2
<1>. QED  BY <1>1, <1>2, <1>3

LEMMA setFuncInv ==
    ASSUME FuncsInv, NEW f \in Fn, NEW kind \in Kind, setFunc(f, kind)
    PROVE  FuncsInv'
<1> DEFINE known == KnownArgs(kind, FnType[f])
           info == [kind |-> kind, args |-> known, declared |-> known]
<1> USE DEF FuncsInv
<1>1. /\ infos' = Append(infos, info)
      /\ func_send' = [func_send EXCEPT ![f] = Append(@, Len(infos'))]
      /\ UNCHANGED <<func_recv, published, to_pack, arg_objs, arg_msgs, twice>>
      /\ UNCHANGED callingVars
  BY DEF setFunc, argVars
<1>2. known \in Args /\ (known.known => known.msg = 0) /\ Args' = Args
  BY <1>1 DEF KnownArgs, Args, OneArg, NoArgs, Type
<1>3. infos' \in Seq(Info') /\ Info' = Info
  BY <1>1, <1>2 DEF FuncsTypeOK, Info
<1> DEFINE n == Len(infos) + 1
<1>4. /\ DOMAIN infos' = DOMAIN infos \cup {n} /\ Len(infos') = n
      /\ \A i \in DOMAIN infos : infos'[i] = infos[i]
      /\ infos'[n] = info /\ n \notin DOMAIN infos
  BY <1>1 DEF FuncsTypeOK
<1>5. func_send' \in [Fn -> Seq(DOMAIN infos')]
  <2>1. \A g \in Fn : func_send[g] \in Seq(DOMAIN infos')
    BY <1>4 DEF FuncsTypeOK
  <2>. QED  BY <1>1, <1>4, <2>1 DEF FuncsTypeOK
<1>6. func_recv' \in [Fn -> {0} \cup DOMAIN infos'] /\ to_pack' \subseteq Fn \X DOMAIN infos'
  BY <1>1, <1>4 DEF FuncsTypeOK
<1>7. ASSUME ~twice' PROVE ArgsDeclared' /\ OwnMsg' /\ ToldIsMeant'
  <2>1. ArgsDeclared /\ OwnMsg /\ ToldIsMeant
    BY <1>1, <1>7
  <2>. HIDE DEF known, n
  <2>2. ArgsDeclared'
    <3>1. ASSUME NEW i \in DOMAIN infos'
          PROVE  infos'[i].args.known =>
                    /\ infos'[i].args.type = infos'[i].declared.type
                    /\ infos'[i].args.msg # 0 =>
                          arg_msgs'[infos'[i].args.msg].type = infos'[i].args.type
      <4>1. CASE i \in DOMAIN infos
        BY <1>1, <1>4, <2>1, <4>1 DEF ArgsDeclared
      <4>2. CASE i = n
        BY <1>2, <1>4, <4>2
      <4>. QED  BY <1>4, <4>1, <4>2
    <3>. QED  BY <3>1 DEF ArgsDeclared
  <2>3. ASSUME NEW m \in DOMAIN arg_msgs, NEW i \in DOMAIN infos'
        PROVE  /\ infos'[i].args.known /\ infos'[i].args.msg = m => i \in DOMAIN infos
               /\ i \in DOMAIN infos => infos'[i] = infos[i]
    <3>1. m # 0
      BY DEF FuncsTypeOK
    <3>. QED  BY <1>2, <1>4, <3>1
  <2>4. OwnMsg'
    BY <1>1, <1>4, <2>1, <2>3 DEF OwnMsg, Has
  <2>5. ToldIsMeant'
    BY <1>1, <2>1 DEF ToldIsMeant
  <2>. QED  BY <2>2, <2>4, <2>5
<1>8. /\ arg_msgs' \in Seq(ArgMsg) /\ twice' \in BOOLEAN
      /\ arg_objs' \in [ArgObj -> [type : Type, msg : 0 .. Len(arg_msgs')]]
      /\ DOMAIN published' = Fn
      /\ \A g \in Fn : \A p \in published'[g] : p.told.known => p.told.msg \in ArgMsg
  BY <1>1 DEF FuncsTypeOK
<1>. QED  BY <1>1, <1>2, <1>3, <1>5, <1>6, <1>7, <1>8, RegisterInv

\* What does not touch arguments, nor what has been told of them.
LEMMA SameArgsInv ==
    ASSUME FuncsInv, UNCHANGED <<infos, published, argVars, callingVars>>,
           func_send' \in [Fn -> Seq(DOMAIN infos)],
           func_recv' \in [Fn -> {0} \cup DOMAIN infos],
           to_pack' \subseteq Fn \X DOMAIN infos
    PROVE  FuncsInv'
<1>1. UNCHANGED <<infos, published, arg_objs, arg_msgs, twice>>
  BY DEF argVars
<1>2. Args' = Args /\ Info' = Info
  BY <1>1 DEF Args, Info
<1>3. ~twice' => ArgsDeclared' /\ OwnMsg' /\ ToldIsMeant'
  BY <1>1 DEF FuncsInv, ArgsDeclared, OwnMsg, ToldIsMeant, Has
<1>. QED  BY <1>1, <1>2, <1>3, RegisterInv DEF FuncsInv, FuncsTypeOK

LEMMA freeInv ==
    ASSUME FuncsInv, NEW f \in Fn, free(f)
    PROVE  FuncsInv'
BY SameArgsInv DEF free, FuncsInv, FuncsTypeOK

LEMMA syncFuncsInv ==
    ASSUME FuncsInv, syncFuncs
    PROVE  FuncsInv'
<1> DEFINE new == {f \in Fn : func_send[f] # <<>> /\ func_recv[f] = 0}
<1>1. /\ func_recv' = [f \in Fn |-> IF f \in new THEN Head(func_send[f]) ELSE func_recv[f]]
      /\ to_pack' = {<<f, Head(func_send[f])>> : f \in new}
      /\ func_send' = [f \in Fn |-> <<>>]
      /\ UNCHANGED <<infos, published, argVars, callingVars>>
  BY DEF syncFuncs
<1>2. \A f \in Fn : func_send[f] # <<>> => Head(func_send[f]) \in DOMAIN infos
  BY DEF FuncsInv, FuncsTypeOK
<1>3. /\ func_recv' \in [Fn -> {0} \cup DOMAIN infos]
      /\ to_pack' \subseteq Fn \X DOMAIN infos
  BY <1>1, <1>2 DEF FuncsInv, FuncsTypeOK
<1>4. func_send' \in [Fn -> Seq(DOMAIN infos)]
  <2>1. <<>> \in Seq(DOMAIN infos)
    OBVIOUS
  <2>. QED  BY <1>1, <2>1
<1>. QED  BY <1>1, <1>3, <1>4, SameArgsInv

\* initMsg: the data of an Arg is there afterwards, and what was there is as before.
LEMMA InitMsg ==
    ASSUME arg_msgs \in Seq(ArgMsg), NEW arg, arg.type \in Type,
           arg.msg \in 0 .. Len(arg_msgs),
           NEW m, m = IF arg.msg = 0 THEN Len(arg_msgs) + 1 ELSE arg.msg
    PROVE  /\ Msgs(arg) \in Seq(ArgMsg) /\ m \in DOMAIN Msgs(arg)
           /\ Len(arg_msgs) <= Len(Msgs(arg))
           /\ \A k \in DOMAIN arg_msgs : Msgs(arg)[k] = arg_msgs[k]
           /\ arg.msg = 0 => Msgs(arg)[m].type = arg.type /\ DOMAIN Msgs(arg) = DOMAIN arg_msgs \cup {m}
           /\ arg.msg # 0 => Msgs(arg) = arg_msgs
<1>1. NewMsg(arg.type) \in ArgMsg /\ NewMsg(arg.type).type = arg.type
  BY DEF NewMsg, ArgMsg
<1>. QED  BY <1>1 DEF Msgs

\* More data leaves the references to what there was.
LEMMA ArgsGrow ==
    ASSUME arg_msgs \in Seq(ArgMsg), arg_msgs' \in Seq(ArgMsg), Len(arg_msgs) <= Len(arg_msgs')
    PROVE  Args \subseteq Args' /\ Info \subseteq Info' /\ 0 .. Len(arg_msgs) \subseteq 0 .. Len(arg_msgs')
<1>1. 0 .. Len(arg_msgs) \subseteq 0 .. Len(arg_msgs')
  OBVIOUS
<1>2. Args \subseteq Args'
  BY <1>1 DEF Args
<1>. QED  BY <1>1, <1>2 DEF Info

\* The limits of one Arg's data change, or it is made: no type changes.
LEMMA setLimitsInv ==
    ASSUME FuncsInv, NEW a \in ArgObj, setLimits(a)
    PROVE  FuncsInv'
<1> DEFINE arg == WithMsg(arg_objs[a])
           m == IF arg_objs[a].msg = 0 THEN Len(arg_msgs) + 1 ELSE arg_objs[a].msg
           msgs == Msgs(arg_objs[a])
<1>1. PICK new \in {SetMin(NoLimits), SetOption(NoLimits)} :
         /\ arg_objs' = [arg_objs EXCEPT ![a] = arg]
         /\ arg_msgs' = [msgs EXCEPT ![arg.msg].limits =
                            IF new.min THEN SetMin(msgs[arg.msg].limits)
                            ELSE SetOption(msgs[arg.msg].limits)]
  BY Zenon DEF setLimits
<1>2. UNCHANGED <<infos, func_send, func_recv, published, to_pack, twice, callingVars>>
  BY DEF setLimits, registerVars
<1>3. /\ arg_msgs \in Seq(ArgMsg)
      /\ arg_objs \in [ArgObj -> [type : Type, msg : 0 .. Len(arg_msgs)]]
  BY DEF FuncsInv, FuncsTypeOK
<1>4. arg.msg = m /\ arg.type = arg_objs[a].type /\ arg \in [type : Type, msg : {m}]
  BY <1>3 DEF WithMsg
<1>5. /\ msgs \in Seq(ArgMsg) /\ m \in DOMAIN msgs
      /\ Len(arg_msgs) <= Len(msgs)
      /\ \A k \in DOMAIN arg_msgs : msgs[k] = arg_msgs[k]
      /\ arg_objs[a].msg = 0 => msgs[m].type = arg_objs[a].type /\ DOMAIN msgs = DOMAIN arg_msgs \cup {m}
      /\ arg_objs[a].msg # 0 => msgs = arg_msgs
  BY <1>3, InitMsg
<1> DEFINE limits == IF new.min THEN SetMin(msgs[arg.msg].limits)
                     ELSE SetOption(msgs[arg.msg].limits)
<1>6. limits \in {NoLimits, SetMin(NoLimits), SetOption(NoLimits)}
  BY DEF SetMin, SetOption
<1>. HIDE DEF arg, m, msgs, limits
<1>7. /\ arg_msgs' = [msgs EXCEPT ![m] = [msgs[m] EXCEPT !.limits = limits]]
  BY <1>1, <1>4 DEF limits
<1>8. [msgs[m] EXCEPT !.limits = limits] \in ArgMsg
      /\ [msgs[m] EXCEPT !.limits = limits].type = msgs[m].type
  <2>1. msgs[m] \in ArgMsg
    BY <1>5, SeqElement
  <2>. QED  BY <1>6, <2>1 DEF ArgMsg
<1>9. arg_msgs' \in Seq(ArgMsg) /\ Len(arg_msgs') = Len(msgs) /\ DOMAIN arg_msgs' = DOMAIN msgs
      /\ \A k \in DOMAIN msgs : arg_msgs'[k].type = msgs[k].type
  BY <1>5, <1>7, <1>8
<1>10. Info \subseteq Info' /\ 0 .. Len(arg_msgs) \subseteq 0 .. Len(arg_msgs')
  BY <1>3, <1>5, <1>9, ArgsGrow
<1>11. infos' \in Seq(Info')
  BY <1>2, <1>10 DEF FuncsInv, FuncsTypeOK
<1>12. arg_objs' \in [ArgObj -> [type : Type, msg : 0 .. Len(arg_msgs')]]
  <2>1. m \in 0 .. Len(arg_msgs')
    BY <1>5, <1>9
  <2>. QED  BY <1>1, <1>3, <1>4, <1>10, <2>1
<1>13. ASSUME ~twice' PROVE ArgsDeclared' /\ OwnMsg' /\ ToldIsMeant'
  <2>1. ArgsDeclared /\ OwnMsg /\ ToldIsMeant
    BY <1>2, <1>13 DEF FuncsInv
  <2>2. \A k \in DOMAIN arg_msgs : k \in DOMAIN arg_msgs' /\ arg_msgs'[k].type = arg_msgs[k].type
    BY <1>3, <1>5, <1>9
  <2>3. \A i \in DOMAIN infos : infos[i].args.known /\ infos[i].args.msg # 0
                                  => infos[i].args.msg \in DOMAIN arg_msgs
    BY <1>3, InfoType DEF FuncsInv
  <2>4. ArgsDeclared'
    BY <1>2, <2>1, <2>2, <2>3 DEF ArgsDeclared
  <2>5. \A b \in ArgObj : /\ arg_objs'[b].type = arg_objs[b].type
                          /\ arg_objs'[b].msg = IF b = a THEN m ELSE arg_objs[b].msg
                          /\ arg_objs[b].msg # 0 => arg_objs[b].msg \in DOMAIN arg_msgs
    BY <1>1, <1>3, <1>4
  <2>6. arg_objs[a].msg = 0 => m \notin DOMAIN arg_msgs
    BY <1>3 DEF m
  <2>7. \A i, j \in DOMAIN infos : \A k \in DOMAIN arg_msgs' :
           infos[i].args.known /\ infos[i].args.msg = k
           /\ infos[j].args.known /\ infos[j].args.msg = k => i = j
    BY <1>9, <2>1, <2>3 DEF OwnMsg, Has
  <2>8. \A b, c \in ArgObj : arg_objs'[b].msg # 0 /\ arg_objs'[b].msg = arg_objs'[c].msg => b = c
    BY <2>1, <2>5, <2>6 DEF OwnMsg, m
  <2>9. ASSUME NEW b \in ArgObj, arg_objs'[b].msg # 0
        PROVE  \/ arg_msgs'[arg_objs'[b].msg].type = arg_objs'[b].type
               \/ \E i \in DOMAIN infos : infos[i].args.known /\ infos[i].args.msg = arg_objs'[b].msg
    <3>1. CASE arg_objs[b].msg # 0
      <4>1. arg_objs'[b].msg = arg_objs[b].msg
        BY <2>5, <3>1 DEF m
      <4>. QED  BY <2>1, <2>2, <2>5, <3>1, <4>1 DEF OwnMsg, Has
    <3>2. CASE arg_objs[b].msg = 0
      <4>1. b = a /\ arg_objs'[b].msg = m
        BY <2>5, <2>9, <3>2
      <4>. QED  BY <1>5, <1>9, <2>5, <3>2, <4>1
    <3>. QED  BY <3>1, <3>2
  <2>10. OwnMsg'
    BY <1>2, <2>7, <2>8, <2>9 DEF OwnMsg, Has
  <2>11. ToldIsMeant'
    BY <1>2, <2>1 DEF ToldIsMeant
  <2>. QED  BY <2>4, <2>10, <2>11
<1>. QED  BY <1>2, <1>3, <1>9, <1>11, <1>12, <1>13, RegisterInv DEF FuncsInv, FuncsTypeOK

LEMMA InfoUpdate ==
    ASSUME NEW x \in [kind : Kind, args : Args, declared : Args], NEW a \in Args, NEW d \in Args
    PROVE  /\ [x EXCEPT !.args = a, !.declared = d] = [kind |-> x.kind, args |-> a, declared |-> d]
           /\ x.kind \in Kind
<1>1. x.kind \in Kind
  OBVIOUS
<1>2. [x EXCEPT !.args = a] = [kind |-> x.kind, args |-> a, declared |-> x.declared]
  OBVIOUS
<1>3. [x EXCEPT !.args = a, !.declared = d] = [kind |-> x.kind, args |-> a, declared |-> d]
  <2>1. PICK y : y = [x EXCEPT !.args = a]
    OBVIOUS
  <2>2. y \in [kind : Kind, args : Args, declared : Args] /\ y.kind = x.kind /\ y.args = a
    BY <1>1, <1>2, <2>1
  <2>3. [y EXCEPT !.declared = d] = [kind |-> x.kind, args |-> a, declared |-> d]
    BY <2>2
  <2>. QED  BY <2>1, <2>3
<1>. QED  BY <1>1, <1>3

\* The Arg of a function, and one of the application.
GivenArg == [known : {TRUE}, type : Type, msg : 0 .. Len(arg_msgs)]
AppArg == [type : Type, msg : 0 .. Len(arg_msgs)]

\* mergeConfig: the function's Arg has the merged type, and so has the data it takes over.
\* What becomes of them.
IsMerged(mine, other, t, merged) ==
    /\ t \in Type
    /\ merged.arg \in [known : {TRUE}, type : {t}, msg : 0 .. Len(arg_msgs)]
    /\ merged.msgs \in Seq(ArgMsg) /\ DOMAIN merged.msgs = DOMAIN arg_msgs
    /\ Len(merged.msgs) = Len(arg_msgs)
    /\ mine.msg = 0 =>
          /\ merged.arg.msg = other.msg
          /\ other.msg # 0 => merged.msgs[other.msg].type = t
          /\ \A k \in DOMAIN arg_msgs \ {other.msg} : merged.msgs[k] = arg_msgs[k]

LEMMA MergeConfig ==
    ASSUME arg_msgs \in Seq(ArgMsg), NEW mine \in GivenArg, NEW other \in AppArg
    PROVE  IsMerged(mine, other, MergedType(mine.type, other.type), mergeConfig(mine, other))
<1>. SUFFICES ASSUME NEW t, t = MergedType(mine.type, other.type),
                     NEW merged, merged = mergeConfig(mine, other)
              PROVE  IsMerged(mine, other, t, merged)
  OBVIOUS
<1>. USE DEF GivenArg, AppArg, IsMerged
<1>1. t \in Type
  BY DEF MergedType
<1>2. CASE other.msg = 0
  <2> DEFINE arg == [mine EXCEPT !.type = t]
  <2>1. merged = [arg |-> arg, msgs |-> arg_msgs]
    BY <1>2, Zenon DEF mergeConfig
  <2>2. merged.arg = arg /\ merged.msgs = arg_msgs
    <3>. HIDE DEF arg
    <3>. QED  BY <2>1
  <2>3. merged.arg = [known |-> TRUE, type |-> t, msg |-> mine.msg]
    BY <2>2
  <2>. QED  BY <1>1, <1>2, <2>2, <2>3
<1>3. CASE other.msg # 0 /\ mine.msg = 0
  <2> DEFINE arg == [mine EXCEPT !.type = t, !.msg = other.msg]
             msg == [arg_msgs[other.msg] EXCEPT !.type = t]
             msgs == [arg_msgs EXCEPT ![other.msg] = msg]
  <2>1. merged = [arg |-> arg, msgs |-> msgs]
    BY <1>3, Zenon DEF mergeConfig
  <2>2. arg_msgs[other.msg] \in ArgMsg /\ other.msg \in DOMAIN arg_msgs
    BY <1>3, SeqElement
  <2>3. msg \in ArgMsg /\ msg.type = t
    BY <1>1, <2>2 DEF ArgMsg
  <2>4. merged.arg = arg /\ merged.msgs = msgs
    <3>. HIDE DEF arg, msgs
    <3>. QED  BY <2>1
  <2>5. merged.arg = [known |-> TRUE, type |-> t, msg |-> other.msg]
    BY <2>4
  <2>6. merged.msgs = [arg_msgs EXCEPT ![other.msg] = msg] /\ msg \in ArgMsg /\ msg.type = t
    <3>. HIDE DEF msg
    <3>. QED  BY <2>3, <2>4
  <2>. HIDE DEF msg
  <2>. QED  BY <1>1, <1>3, <2>2, <2>5, <2>6
<1>4. CASE other.msg # 0 /\ mine.msg # 0
  <2> DEFINE limits == arg_msgs[other.msg].limits
             old == arg_msgs[mine.msg].limits
             new == IF limits.option THEN SetOption(old) ELSE SetMin(old)
             arg == [mine EXCEPT !.type = t]
             msg == [arg_msgs[mine.msg] EXCEPT !.limits = new]
             msgs == IF limits = NoLimits THEN arg_msgs ELSE [arg_msgs EXCEPT ![mine.msg] = msg]
  <2>1. merged = [arg |-> arg, msgs |-> msgs]
    BY <1>4, Zenon DEF mergeConfig
  <2>2. arg_msgs[mine.msg] \in ArgMsg /\ mine.msg \in DOMAIN arg_msgs
    BY <1>4, SeqElement
  <2>3. new \in {NoLimits, SetMin(NoLimits), SetOption(NoLimits)}
    BY DEF SetMin, SetOption
  <2>4. msg \in ArgMsg
    <3>. HIDE DEF new
    <3>. QED  BY <2>2, <2>3 DEF ArgMsg
  <2>5. merged.arg = arg /\ merged.msgs = msgs
    <3>. HIDE DEF arg, msgs
    <3>. QED  BY <2>1
  <2>6. merged.arg = [known |-> TRUE, type |-> t, msg |-> mine.msg]
    BY <2>5
  <2>7. msgs \in Seq(ArgMsg) /\ DOMAIN msgs = DOMAIN arg_msgs /\ Len(msgs) = Len(arg_msgs)
    <3>. HIDE DEF msg, limits
    <3>. QED  BY <2>2, <2>4
  <2>. HIDE DEF arg, msgs
  <2>. QED  BY <1>1, <1>4, <2>5, <2>6, <2>7
<1>. QED  BY <1>2, <1>3, <1>4

\* The Arg is merged into that of a function, or becomes it.  Unless it was used before, its
\* data is only referred to by this function then.
LEMMA setArgsInv ==
    ASSUME FuncsInv, NEW f \in Fn, NEW a \in ArgObj, setArgs(f, a)
    PROVE  FuncsInv'
<1> DEFINE i == getRecv(f)
           args == infos[i].args
           other == arg_objs[a]
           merged == mergeConfig(args, other)
           only == OneArg(other.type, other.msg)
           newArgs == IF args.known THEN merged.arg ELSE only
           type == IF args.known /\ only.type = "none_" THEN infos[i].declared.type ELSE only.type
           newMsgs == IF args.known THEN merged.msgs ELSE arg_msgs
<1>1. /\ i # 0
      /\ infos' = [infos EXCEPT ![i].args = newArgs, ![i].declared = OneArg(type, 0)]
      /\ arg_msgs' = newMsgs
      /\ twice' = (twice \/ \E j \in DOMAIN infos :
                      /\ infos[j].args.known /\ infos[j].args.msg # 0
                      /\ (j = i \/ infos[j].args.msg = other.msg))
      /\ UNCHANGED <<func_send, func_recv, published, to_pack, arg_objs, callingVars>>
  BY DEF setArgs
<1>2. i \in DOMAIN infos
  BY <1>1, GetRecvType DEF FuncsInv
<1>. HIDE DEF i
<1>3. /\ infos[i] \in Info /\ args \in Args /\ arg_msgs \in Seq(ArgMsg)
      /\ args.known => args \in [known : {TRUE}, type : Type, msg : 0 .. Len(arg_msgs)]
      /\ infos[i].declared \in Args /\ (infos[i].declared.known <=> args.known)
      /\ args.known => infos[i].declared.type \in Type
      /\ other \in [type : Type, msg : 0 .. Len(arg_msgs)]
      /\ arg_msgs \in Seq(ArgMsg)
  <2>1. infos[i] \in Info /\ arg_msgs \in Seq(ArgMsg)
        /\ other \in [type : Type, msg : 0 .. Len(arg_msgs)]
    BY <1>2, SeqElement DEF FuncsInv, FuncsTypeOK
  <2>2. args \in Args /\ infos[i].declared \in Args /\ (infos[i].declared.known <=> args.known)
    BY <2>1 DEF Info
  <2>3. ~NoArgs.known
    BY DEF NoArgs
  <2>4. \A x \in Args : x.known => x \in [known : {TRUE}, type : Type, msg : 0 .. Len(arg_msgs)]
    BY <2>3 DEF Args
  <2>. QED  BY <2>1, <2>2, <2>4
<1> DEFINE t == MergedType(args.type, other.type)
<1>4. args.known =>
        /\ t \in Type
        /\ merged.arg \in [known : {TRUE}, type : {t}, msg : 0 .. Len(arg_msgs)]
        /\ merged.msgs \in Seq(ArgMsg) /\ DOMAIN merged.msgs = DOMAIN arg_msgs
        /\ Len(merged.msgs) = Len(arg_msgs)
        /\ args.msg = 0 =>
              /\ merged.arg.msg = other.msg
              /\ other.msg # 0 => merged.msgs[other.msg].type = t
              /\ \A k \in DOMAIN arg_msgs \ {other.msg} : merged.msgs[k] = arg_msgs[k]
  <2>1. args.known => IsMerged(args, other, t, merged)
    <3>1. args.known => args \in GivenArg
      BY <1>3 DEF GivenArg
    <3>2. other \in AppArg
      BY <1>3 DEF AppArg
    <3>. HIDE DEF args, other
    <3>. QED  BY <1>3, <3>1, <3>2, MergeConfig
  <2>. HIDE DEF args, other, merged, t
  <2>. QED  BY <2>1 DEF IsMerged
<1>5. /\ only \in [known : {TRUE}, type : Type, msg : 0 .. Len(arg_msgs)]
      /\ only.type = other.type /\ only.msg = other.msg
  BY <1>3 DEF OneArg
<1>6. newArgs \in [known : {TRUE}, type : Type, msg : 0 .. Len(arg_msgs)] /\ type \in Type
      /\ newMsgs \in Seq(ArgMsg) /\ DOMAIN newMsgs = DOMAIN arg_msgs /\ Len(newMsgs) = Len(arg_msgs)
  <2>. HIDE DEF merged, only
  <2>. QED  BY <1>3, <1>4, <1>5
<1> DEFINE new == [kind |-> infos[i].kind, args |-> newArgs, declared |-> OneArg(type, 0)]
<1>7. infos' = [infos EXCEPT ![i] = new] /\ new \in Info
  <2>1. OneArg(type, 0) \in Args /\ OneArg(type, 0).known
    <3>. HIDE DEF newArgs, type
    <3>. QED  BY <1>3, <1>6 DEF OneArg, Args
  <2>2. newArgs \in Args /\ newArgs.known
    <3>. HIDE DEF newArgs, type
    <3>. QED  BY <1>6 DEF Args
  <2>3. PICK x : x = infos[i]
    OBVIOUS
  <2>4. x \in [kind : Kind, args : Args, declared : Args]
    BY <1>3, <2>3 DEF Info
  <2>5. [x EXCEPT !.args = newArgs, !.declared = OneArg(type, 0)] = new /\ x.kind \in Kind
    <3>1. PICK a1, d1 : a1 = newArgs /\ d1 = OneArg(type, 0)
      OBVIOUS
    <3>2. [x EXCEPT !.args = a1, !.declared = d1] = [kind |-> x.kind, args |-> a1, declared |-> d1]
          /\ x.kind \in Kind
      <4>1. a1 \in Args /\ d1 \in Args
        <5>. HIDE DEF newArgs, type
        <5>. QED  BY <2>1, <2>2, <3>1
      <4>. QED  BY <2>4, <4>1, InfoUpdate
    <3>. HIDE DEF newArgs, type
    <3>. QED  BY <2>3, <3>1, <3>2
  <2>6. infos' = [infos EXCEPT ![i] = new]
    <3>. HIDE DEF newArgs, type
    <3>. QED  BY <1>1, <1>2, <2>3, <2>5
  <2>7. new \in Info
    <3>. HIDE DEF newArgs, type
    <3>. QED  BY <2>1, <2>2, <2>3, <2>5 DEF Info
  <2>. QED  BY <2>6, <2>7
<1>8. Args' = Args /\ Info' = Info /\ infos' \in Seq(Info') /\ DOMAIN infos' = DOMAIN infos
      /\ infos'[i] = new /\ \A j \in DOMAIN infos \ {i} : infos'[j] = infos[j]
  <2>1. Args' = Args
    <3>. HIDE DEF newMsgs
    <3>. QED  BY <1>1, <1>6 DEF Args
  <2>2. Info' = Info
    BY <2>1 DEF Info
  <2>3. infos \in Seq(Info)
    BY DEF FuncsInv, FuncsTypeOK
  <2>. HIDE DEF new
  <2>. QED  BY <1>2, <1>7, <2>1, <2>2, <2>3
<1>9. ASSUME ~twice' PROVE ArgsDeclared' /\ OwnMsg' /\ ToldIsMeant'
  <2>1. /\ ArgsDeclared /\ OwnMsg /\ ToldIsMeant
        /\ args.known => args.msg = 0
        /\ \A j \in DOMAIN infos : infos[j].args.known /\ infos[j].args.msg # 0
                                     => infos[j].args.msg # other.msg
    BY <1>1, <1>2, <1>9 DEF FuncsInv
  <2>2. other.msg # 0 => arg_msgs[other.msg].type = other.type
    BY <2>1 DEF OwnMsg, Has
  <2>3. \A j \in DOMAIN infos : infos[j].args.known => infos[j].args.msg \in {0} \cup DOMAIN arg_msgs
    BY <1>3, InfoType DEF FuncsInv
  <2>4. /\ newArgs.known /\ newArgs.type = type /\ newArgs.msg = other.msg
        /\ other.msg # 0 => newMsgs[other.msg].type = type
        /\ \A k \in DOMAIN arg_msgs \ {other.msg} : newMsgs[k] = arg_msgs[k]
    <3>1. CASE args.known
      <4>1. t = type
        BY <1>2, <1>5, <2>1, <3>1 DEF ArgsDeclared, MergedType
      <4>. HIDE DEF merged, t, type, only
      <4>2. newArgs = merged.arg /\ newMsgs = merged.msgs
        BY <3>1
      <4>. HIDE DEF newArgs, newMsgs
      <4>. QED  BY <1>4, <2>1, <3>1, <4>1, <4>2
    <3>2. CASE ~args.known
      BY <1>5, <2>2, <3>2
    <3>. QED  BY <3>1, <3>2
  <2>5. new.args = newArgs /\ new.declared.type = type
    BY DEF OneArg
  <2>. HIDE DEF new, newArgs, newMsgs, type
  <2>6. ArgsDeclared'
    <3>1. ASSUME NEW j \in DOMAIN infos', infos'[j].args.known
          PROVE  /\ infos'[j].args.type = infos'[j].declared.type
                 /\ infos'[j].args.msg # 0 => newMsgs[infos'[j].args.msg].type = infos'[j].args.type
      <4>1. CASE j = i
        BY <1>8, <2>4, <2>5, <4>1
      <4>2. CASE j # i
        BY <1>8, <2>1, <2>3, <2>4, <3>1, <4>2 DEF ArgsDeclared
      <4>. QED  BY <4>1, <4>2
    <3>. QED  BY <1>1, <3>1 DEF ArgsDeclared
  <2>7. ASSUME NEW j \in DOMAIN infos', NEW m \in DOMAIN arg_msgs
        PROVE  infos'[j].args.known /\ infos'[j].args.msg = m
                  <=> IF m = other.msg THEN j = i ELSE infos[j].args.known /\ infos[j].args.msg = m
    <3>1. m # 0
      BY <1>3
    <3>2. CASE j = i
      BY <1>8, <2>1, <2>4, <2>5, <3>1, <3>2
    <3>3. CASE j # i
      BY <1>8, <2>1, <3>1, <3>3
    <3>. QED  BY <3>2, <3>3
  <2>8. OwnMsg'
    <3>1. DOMAIN arg_msgs' = DOMAIN arg_msgs /\ arg_objs' = arg_objs /\ arg_msgs' = newMsgs
      BY <1>1, <1>6
    <3>2. \A j, k \in DOMAIN infos' : \A m \in DOMAIN arg_msgs :
             (/\ infos'[j].args.known /\ infos'[j].args.msg = m
              /\ infos'[k].args.known /\ infos'[k].args.msg = m) => j = k
      <4> SUFFICES ASSUME NEW j \in DOMAIN infos', NEW k \in DOMAIN infos', NEW m \in DOMAIN arg_msgs,
                          infos'[j].args.known, infos'[j].args.msg = m,
                          infos'[k].args.known, infos'[k].args.msg = m
                   PROVE  j = k
        OBVIOUS
      <4>1. CASE m = other.msg
        BY <2>7, <4>1
      <4>2. CASE m # other.msg
        <5>1. /\ infos[j].args.known /\ infos[j].args.msg = m
              /\ infos[k].args.known /\ infos[k].args.msg = m
          BY <2>7, <4>2
        <5>. QED  BY <1>8, <2>1, <5>1 DEF OwnMsg, Has
      <4>. QED  BY <4>1, <4>2
    <3>3. \A b, c \in ArgObj : arg_objs[b].msg # 0 /\ arg_objs[b].msg = arg_objs[c].msg => b = c
      BY <2>1 DEF OwnMsg
    <3>4. ASSUME NEW b \in ArgObj, arg_objs[b].msg # 0
          PROVE  \/ newMsgs[arg_objs[b].msg].type = arg_objs[b].type
                 \/ \E j \in DOMAIN infos' : infos'[j].args.known /\ infos'[j].args.msg = arg_objs[b].msg
      <4>1. arg_objs[b].msg \in DOMAIN arg_msgs
        BY <1>3, <3>4 DEF FuncsInv, FuncsTypeOK
      <4>2. CASE arg_objs[b].msg = other.msg
        BY <1>2, <1>8, <2>7, <4>1, <4>2
      <4>3. CASE arg_objs[b].msg # other.msg
        <5>1. \/ arg_msgs[arg_objs[b].msg].type = arg_objs[b].type
              \/ \E j \in DOMAIN infos : infos[j].args.known /\ infos[j].args.msg = arg_objs[b].msg
          BY <2>1, <3>4 DEF OwnMsg, Has
        <5>. QED  BY <1>8, <2>4, <2>7, <4>1, <4>3, <5>1
      <4>. QED  BY <4>2, <4>3
    <3>. QED  BY <3>1, <3>2, <3>3, <3>4 DEF OwnMsg, Has
  <2>9. ToldIsMeant'
    BY <1>1, <2>1 DEF ToldIsMeant
  <2>. QED  BY <2>6, <2>8, <2>9
<1>10. /\ arg_msgs' \in Seq(ArgMsg) /\ Len(arg_msgs') = Len(arg_msgs) /\ twice' \in BOOLEAN
  <2>. HIDE DEF newMsgs
  <2>. QED  BY <1>1, <1>6 DEF FuncsInv, FuncsTypeOK
<1>. HIDE DEF args, other, merged, only, newArgs, type, newMsgs, new, t
<1>. QED  BY <1>1, <1>8, <1>9, <1>10, RegisterInv DEF FuncsInv, FuncsTypeOK

\* What is packed is told, and refers to data that is made if there was none.
LEMMA packFuncInv ==
    ASSUME FuncsInv, NEW p \in to_pack, packFunc(p)
    PROVE  FuncsInv'
<1> DEFINE f == p[1]
           i == p[2]
           args == infos[i].args
           m == IF args.msg = 0 THEN Len(arg_msgs) + 1 ELSE args.msg
           msgs == Msgs(args)
           told == IF args.known THEN [known |-> TRUE, msg |-> msgs[WithMsg(args).msg]]
                   ELSE [known |-> FALSE]
           note == [told |-> told, meant |-> infos[i].declared]
<1>1. /\ published' = [published EXCEPT ![f] = {note}]
      /\ to_pack' = to_pack \ {p}
      /\ IF args.known
         THEN infos' = [infos EXCEPT ![i].args = WithMsg(args)] /\ arg_msgs' = msgs
         ELSE UNCHANGED <<infos, arg_msgs>>
      /\ UNCHANGED <<func_send, func_recv, arg_objs, twice, callingVars>>
  BY DEF packFunc
<1>2. f \in Fn /\ i \in DOMAIN infos /\ arg_msgs \in Seq(ArgMsg) /\ infos \in Seq(Info)
  BY DEF FuncsInv, FuncsTypeOK
<1>. HIDE DEF f, i
<1>3. /\ infos[i] \in Info /\ args \in Args
      /\ args.known => args \in GivenArg
  <2>1. infos[i] \in Info
    BY <1>2, SeqElement
  <2>2. args \in Args
    BY <2>1 DEF Info
  <2>3. ~NoArgs.known
    BY DEF NoArgs
  <2>. QED  BY <2>1, <2>2, <2>3 DEF Args, GivenArg
\* without an argument that is known, nothing is told of it
<1>4. CASE ~args.known
  <2>1. UNCHANGED <<infos, arg_msgs, arg_objs, func_send, func_recv, twice>>
    BY <1>1, <1>4
  <2>2. Args' = Args /\ Info' = Info
    BY <2>1 DEF Args, Info
  <2>3. ~note.told.known
    BY <1>4
  <2>. HIDE DEF note
  <2>4. \A g \in Fn : \A q \in published'[g] : q.told.known => g # f /\ q \in published[g]
    BY <1>1, <1>2, <2>3 DEF FuncsInv, FuncsTypeOK
  <2>5. ~twice' => ArgsDeclared' /\ OwnMsg' /\ ToldIsMeant'
    BY <2>1, <2>4 DEF FuncsInv, ArgsDeclared, OwnMsg, ToldIsMeant, Has
  <2>. QED  BY <1>1, <2>1, <2>2, <2>4, <2>5, RegisterInv DEF FuncsInv, FuncsTypeOK
<1>5. CASE args.known
  <2>1. /\ msgs \in Seq(ArgMsg) /\ m \in DOMAIN msgs
        /\ Len(arg_msgs) <= Len(msgs)
        /\ \A k \in DOMAIN arg_msgs : msgs[k] = arg_msgs[k]
        /\ args.msg = 0 => msgs[m].type = args.type /\ DOMAIN msgs = DOMAIN arg_msgs \cup {m}
        /\ args.msg # 0 => msgs = arg_msgs
    <3>1. args.type \in Type /\ args.msg \in 0 .. Len(arg_msgs)
      BY <1>3, <1>5 DEF GivenArg
    <3>. HIDE DEF args
    <3>. QED  BY <1>2, <3>1, InitMsg
  <2>2. WithMsg(args) = [known |-> TRUE, type |-> args.type, msg |-> m]
    BY <1>3, <1>5 DEF GivenArg, WithMsg
  <2> DEFINE newArgs == [known |-> TRUE, type |-> args.type, msg |-> m]
             new == [kind |-> infos[i].kind, args |-> newArgs, declared |-> infos[i].declared]
  <2>3. note.told = [known |-> TRUE, msg |-> msgs[m]] /\ note.meant = infos[i].declared
    BY <1>5, <2>2
  <2>4. msgs[m] \in ArgMsg
    BY <2>1, SeqElement
  <2>5. published' = [published EXCEPT ![f] = {note}] /\ arg_msgs' = msgs
        /\ infos' = [infos EXCEPT ![i].args = newArgs]
    BY <1>1, <1>5, <2>2
  <2>. HIDE DEF msgs, note
  <2>6. Args \subseteq Args' /\ Info \subseteq Info' /\ 0 .. Len(arg_msgs) \subseteq 0 .. Len(arg_msgs')
    BY <1>2, <2>1, <2>5, ArgsGrow
  <2>7. newArgs \in Args'
    <3>1. m \in 0 .. Len(msgs)
      <4>. HIDE DEF m
      <4>. QED  BY <2>1
    <3>2. args.type \in Type
      BY <1>3, <1>5 DEF GivenArg
    <3>. HIDE DEF args, m
    <3>. QED  BY <2>5, <3>1, <3>2 DEF Args
  <2>8. infos' = [infos EXCEPT ![i] = new]
    <3>1. infos[i] \in [kind : Kind, args : Args, declared : Args]
      BY <1>3 DEF Info
    <3>2. [infos[i] EXCEPT !.args = newArgs] = new
      <4>. HIDE DEF newArgs
      <4>. QED  BY <3>1
    <3>. HIDE DEF newArgs, new
    <3>. QED  BY <1>2, <2>5, <3>2
  <2>9. new \in Info'
    <3>1. infos[i] \in [kind : Kind, args : Args', declared : Args'] /\ infos[i].declared.known
      BY <1>3, <1>5, <2>6 DEF Info
    <3>2. newArgs.known
      OBVIOUS
    <3>. HIDE DEF newArgs
    <3>. QED  BY <2>7, <3>1, <3>2 DEF Info
  <2>10. infos' \in Seq(Info') /\ DOMAIN infos' = DOMAIN infos
        /\ infos'[i] = new /\ \A j \in DOMAIN infos \ {i} : infos'[j] = infos[j]
    <3>. HIDE DEF new
    <3>1. infos \in Seq(Info')
      BY <1>2, <2>6
    <3>. QED  BY <1>2, <2>8, <2>9, <3>1
  <2>11. DOMAIN published' = Fn
         /\ \A g \in Fn : \A q \in published'[g] : q = note \/ q \in published[g]
    BY <1>2, <2>5 DEF FuncsInv, FuncsTypeOK
  <2>12. \A g \in Fn : \A q \in published'[g] : q.told.known => q.told.msg \in ArgMsg
    BY <2>3, <2>4, <2>11 DEF FuncsInv, FuncsTypeOK
  <2>13. arg_objs' \in [ArgObj -> [type : Type, msg : 0 .. Len(arg_msgs')]]
    BY <1>1, <2>6 DEF FuncsInv, FuncsTypeOK
  <2>14. ASSUME ~twice' PROVE ArgsDeclared' /\ OwnMsg' /\ ToldIsMeant'
    <3>1. ArgsDeclared /\ OwnMsg /\ ToldIsMeant
      BY <1>1, <2>14 DEF FuncsInv
    <3>2. \A j \in DOMAIN infos : infos[j].args.known => infos[j].args.msg \in {0} \cup DOMAIN arg_msgs
      BY <1>2, InfoType DEF FuncsInv
    <3>3. new.args = newArgs /\ new.declared = infos[i].declared /\ newArgs.known
          /\ newArgs.type = args.type /\ newArgs.msg = m
      OBVIOUS
    <3>4. args.type = infos[i].declared.type /\ msgs[m].type = args.type /\ m # 0
      BY <1>2, <1>5, <2>1, <3>1, <3>2 DEF ArgsDeclared
    <3>5. args.msg = 0 => m \notin DOMAIN arg_msgs
      BY <1>2
    <3>. HIDE DEF new, newArgs
    <3>6. ArgsDeclared'
      <4>1. ASSUME NEW j \in DOMAIN infos', infos'[j].args.known
            PROVE  /\ infos'[j].args.type = infos'[j].declared.type
                   /\ infos'[j].args.msg # 0 => msgs[infos'[j].args.msg].type = infos'[j].args.type
        <5>1. CASE j = i
          BY <2>10, <3>3, <3>4, <5>1
        <5>2. CASE j # i
          BY <2>1, <2>10, <3>1, <3>2, <4>1, <5>2 DEF ArgsDeclared
        <5>. QED  BY <5>1, <5>2
      <4>. QED  BY <2>5, <4>1 DEF ArgsDeclared
    <3>7. ASSUME NEW j \in DOMAIN infos', NEW k, k # 0
          PROVE  infos'[j].args.known /\ infos'[j].args.msg = k
                    <=> \/ infos[j].args.known /\ infos[j].args.msg = k
                        \/ k = m /\ j = i
      <4>1. CASE j = i
        BY <1>5, <2>10, <3>3, <3>7, <4>1
      <4>2. CASE j # i
        BY <2>10, <4>2
      <4>. QED  BY <4>1, <4>2
    <3>8. OwnMsg'
      <4>1. ASSUME NEW j \in DOMAIN infos', NEW l \in DOMAIN infos', NEW k \in DOMAIN msgs,
                   infos'[j].args.known, infos'[j].args.msg = k,
                   infos'[l].args.known, infos'[l].args.msg = k
            PROVE  j = l
        <5>1. k # 0
          BY <2>1
        <5>2. /\ (infos[j].args.known /\ infos[j].args.msg = k) \/ (k = m /\ j = i)
              /\ (infos[l].args.known /\ infos[l].args.msg = k) \/ (k = m /\ l = i)
          BY <3>7, <4>1, <5>1
        <5>3. CASE k \in DOMAIN arg_msgs
          <6>1. k = m => Has(i, k)
            BY <1>5, <3>5, <5>3 DEF Has
          <6>2. Has(j, k) /\ Has(l, k)
            BY <5>2, <6>1 DEF Has
          <6>. QED  BY <1>2, <2>10, <3>1, <5>3, <6>2 DEF OwnMsg
        <5>4. CASE k \notin DOMAIN arg_msgs
          BY <2>10, <3>2, <5>1, <5>2, <5>4
        <5>. QED  BY <5>3, <5>4
      <4>2. ASSUME NEW b \in ArgObj, arg_objs[b].msg # 0
            PROVE  \/ msgs[arg_objs[b].msg].type = arg_objs[b].type
                   \/ \E j \in DOMAIN infos' : infos'[j].args.known /\ infos'[j].args.msg = arg_objs[b].msg
        <5>1. arg_objs[b].msg \in DOMAIN arg_msgs
          BY <1>2, <4>2 DEF FuncsInv, FuncsTypeOK
        <5>2. \/ arg_msgs[arg_objs[b].msg].type = arg_objs[b].type
              \/ \E j \in DOMAIN infos : infos[j].args.known /\ infos[j].args.msg = arg_objs[b].msg
          BY <3>1, <4>2 DEF OwnMsg, Has
        <5>3. CASE arg_msgs[arg_objs[b].msg].type = arg_objs[b].type
          BY <2>1, <5>1, <5>3
        <5>4. ASSUME NEW j \in DOMAIN infos, infos[j].args.known, infos[j].args.msg = arg_objs[b].msg
              PROVE  infos'[j].args.known /\ infos'[j].args.msg = arg_objs[b].msg /\ j \in DOMAIN infos'
          BY <2>10, <3>7, <4>2, <5>4
        <5>. QED  BY <5>2, <5>3, <5>4
      <4>3. \A b, c \in ArgObj : arg_objs[b].msg # 0 /\ arg_objs[b].msg = arg_objs[c].msg => b = c
        BY <3>1 DEF OwnMsg
      <4>. QED  BY <1>1, <2>5, <4>1, <4>2, <4>3 DEF OwnMsg, Has
    <3>9. ToldIsMeant'
      BY <2>3, <2>11, <3>1, <3>4 DEF ToldIsMeant
    <3>. QED  BY <3>6, <3>8, <3>9
  <2>. HIDE DEF args, newArgs, new, m
  <2>. QED  BY <1>1, <1>2, <2>1, <2>5, <2>10, <2>11, <2>12, <2>13, <2>14, RegisterInv
            DEF FuncsInv, FuncsTypeOK
<1>. QED  BY <1>4, <1>5

LEMMA FuncsNextInv == FuncsInv /\ [FuncsNext]_funcsVars => FuncsInv'
<1> SUFFICES ASSUME FuncsInv, [FuncsNext]_funcsVars PROVE FuncsInv'
  OBVIOUS
<1>1. CASE UNCHANGED funcsVars
  <2>1. UNCHANGED <<infos, published, func_send, func_recv, to_pack, argVars, callingVars>>
    BY <1>1 DEF funcsVars, registerVars
  <2>. QED  BY <2>1, SameArgsInv DEF FuncsInv, FuncsTypeOK
<1>2. ASSUME NEW a \in ArgObj, setLimits(a) PROVE FuncsInv'
  BY <1>2, setLimitsInv
<1>3. ASSUME NEW f \in Fn,
             \/ \E kind \in Kind : setFunc(f, kind)
             \/ \E a \in ArgObj : setArgs(f, a)
             \/ free(f)
             \/ \E c \in FnCall, n \in 0 .. 1 : callFunc(c, f, n)
      PROVE  FuncsInv'
  BY <1>3, setFuncInv, setArgsInv, freeInv, CallsInv
<1>4. ASSUME syncFuncs \/ \E p \in to_pack : packFunc(p) PROVE FuncsInv'
  BY <1>4, syncFuncsInv, packFuncInv
<1>5. ASSUME NEW c \in FnCall, \/ plainReturns(c) \/ handleReturns(c) \/ handleThrows(c)
                               \/ fetchCall(c) \/ answerLater(c)
      PROVE  FuncsInv'
  BY <1>5, CallsInv
<1>. QED  BY <1>1, <1>2, <1>3, <1>4, <1>5 DEF FuncsNext

\* What is registered, waits and has been told agrees in every reachable state (FuncsInv).
THEOREM FuncsConsistent == FuncsSpec => []FuncsInv
BY FuncsInitInv, FuncsNextInv, PTL DEF FuncsSpec

\* The others are told of an argument what the function has, although FuncInfo and Arg share
\* the data that the application goes on changing (SignatureTold).
THEOREM SignaturesTold == FuncsSpec => []SignatureTold
<1>1. FuncsInv => SignatureTold
  <2> SUFFICES ASSUME FuncsInv, NEW f \in Fn, NEW p \in published[f], p.told.known
               PROVE  /\ ~(p.told.msg.limits.min /\ p.told.msg.limits.option)
                      /\ ~twice => p.told.msg.type = p.meant.type
    BY DEF SignatureTold
  <2>1. p.told.msg \in ArgMsg
    BY DEF FuncsInv, FuncsTypeOK
  <2>2. \A m \in ArgMsg : ~(m.limits.min /\ m.limits.option)
    BY DEF ArgMsg, NoLimits, SetMin, SetOption
  <2>3. ~twice => p.told.msg.type = p.meant.type
    BY DEF FuncsInv, ToldIsMeant
  <2>. QED  BY <2>1, <2>2, <2>3
<1>. QED  BY <1>1, FuncsConsistent, PTL

(***************************************************************************)
(* CApi                                                                      *)
(***************************************************************************)

LEMMA KeptAdd ==
    ASSUME NEW O, NEW G, NEW M, Kept(O, G, M), NEW k, NEW x, x.at \notin M
    PROVE  Kept(O \cup {<<k, x>>}, G \cup {Pointer(k, x.at)}, M \cup {x.at})
<1>1. IsFiniteSet(O \cup {<<k, x>>})
  BY FS_AddElement DEF Kept
<1>2. \A y \in O : y[2].at # x.at
  BY DEF Kept
<1> DEFINE o == <<k, x>>
<1>3. o[1] = k /\ o[2] = x
  OBVIOUS
<1> HIDE DEF o
<1>4. {Pointer(y[1], y[2].at) : y \in O \cup {o}} = G \cup {Pointer(k, x.at)}
  BY <1>3 DEF Kept
<1>5. {y[2].at : y \in O \cup {o}} = M \cup {x.at}
  BY <1>3 DEF Kept
<1>6. \A y, z \in O \cup {o} : y[2].at = z[2].at => y = z
  BY <1>2, <1>3 DEF Kept
<1>. QED  BY <1>1, <1>4, <1>5, <1>6 DEF Kept, o

LEMMA KeptDrop ==
    ASSUME NEW O, NEW G, NEW M, Kept(O, G, M), NEW k, NEW x, <<k, x>> \in O
    PROVE  Kept(O \ {<<k, x>>}, G \ {Pointer(k, x.at)}, M \ {x.at})
<1>1. IsFiniteSet(O \ {<<k, x>>})
  BY FS_RemoveElement DEF Kept
<1>2. \A y \in O : y[2].at = x.at <=> y = <<k, x>>
  BY DEF Kept
<1>3. \A y \in O : Pointer(y[1], y[2].at) = Pointer(k, x.at) <=> y = <<k, x>>
  BY <1>2 DEF Pointer
<1>. QED  BY <1>1, <1>2, <1>3 DEF Kept

LEMMA TaggedChanges ==
    ASSUME NEW k, NEW L, NEW x
    PROVE  /\ Tagged(k, L \cup {x}) = Tagged(k, L) \cup {<<k, x>>}
           /\ Tagged(k, L \ {x}) = Tagged(k, L) \ {<<k, x>>}
           /\ \A j : j # k => <<k, x>> \notin Tagged(j, L)
           /\ x \in L <=> <<k, x>> \in Tagged(k, L)
BY DEF Tagged

LEMMA ClientTagged ==
    ASSUME NEW L, NEW a
    PROVE  /\ {[at |-> b] : b \in L \cup {a}} = {[at |-> b] : b \in L} \cup {[at |-> a]}
           /\ {[at |-> b] : b \in L \ {a}} = {[at |-> b] : b \in L} \ {[at |-> a]}
<1>1. \A b : [at |-> b] = [at |-> a] <=> b = a
  <2>1. \A b : [at |-> b].at = b
    OBVIOUS
  <2>. QED  BY <2>1
<1>. QED  BY <1>1

\* One list gets an entry: so do the objects.
LEMMA ObjectsAdd ==
    ASSUME NEW x
    PROVE  /\ wcli_list' = wcli_list \cup {x}
              /\ UNCHANGED <<func_result_list, fetched_handles, func_val_list, view_list>>
              => Objects' = Objects \cup {<<"client", [at |-> x]>>}
           /\ func_result_list' = func_result_list \cup {x}
              /\ UNCHANGED <<wcli_list, fetched_handles, func_val_list, view_list>>
              => Objects' = Objects \cup {<<"promise", x>>}
           /\ fetched_handles' = fetched_handles \cup {x}
              /\ UNCHANGED <<wcli_list, func_result_list, func_val_list, view_list>>
              => Objects' = Objects \cup {<<"handle", x>>}
           /\ func_val_list' = func_val_list \cup {x}
              /\ UNCHANGED <<wcli_list, func_result_list, fetched_handles, view_list>>
              => Objects' = Objects \cup {<<"value", x>>}
           /\ view_list' = view_list \cup {x}
              /\ UNCHANGED <<wcli_list, func_result_list, fetched_handles, func_val_list>>
              => Objects' = Objects \cup {<<"view", x>>}
<1> DEFINE A == Tagged("client", Clients)
           B == Tagged("promise", func_result_list)
           C == Tagged("handle", fetched_handles)
           D == Tagged("value", func_val_list)
           E == Tagged("view", view_list)
<1>0. Objects = A \cup B \cup C \cup D \cup E /\ (Objects = A \cup B \cup C \cup D \cup E)'
  BY DEF Objects
<1>1. ASSUME wcli_list' = wcli_list \cup {x},
             UNCHANGED <<func_result_list, fetched_handles, func_val_list, view_list>>
      PROVE  Objects' = Objects \cup {<<"client", [at |-> x]>>}
  <2>1. Clients' = Clients \cup {[at |-> x]}
    BY <1>1, ClientTagged DEF Clients
  <2>2. A' = A \cup {<<"client", [at |-> x]>>}
    BY <1>1, <2>1, TaggedChanges DEF Tagged
  <2>3. B' = B /\ C' = C /\ D' = D /\ E' = E
    BY <1>1, <2>1
  <2>. HIDE DEF A, B, C, D, E
  <2>. QED  BY <1>0, <2>2, <2>3
<1>2. ASSUME func_result_list' = func_result_list \cup {x},
             UNCHANGED <<wcli_list, fetched_handles, func_val_list, view_list>>
      PROVE  Objects' = Objects \cup {<<"promise", x>>}
  <2>1. Clients' = Clients
    BY <1>2 DEF Clients
  <2>2. B' = B \cup {<<"promise", x>>}
    BY <1>2, <2>1, TaggedChanges DEF Tagged
  <2>3. A' = A /\ C' = C /\ D' = D /\ E' = E
    BY <1>2, <2>1
  <2>. HIDE DEF A, B, C, D, E
  <2>. QED  BY <1>0, <2>2, <2>3
<1>3. ASSUME fetched_handles' = fetched_handles \cup {x},
             UNCHANGED <<wcli_list, func_result_list, func_val_list, view_list>>
      PROVE  Objects' = Objects \cup {<<"handle", x>>}
  <2>1. Clients' = Clients
    BY <1>3 DEF Clients
  <2>2. C' = C \cup {<<"handle", x>>}
    BY <1>3, <2>1, TaggedChanges DEF Tagged
  <2>3. A' = A /\ B' = B /\ D' = D /\ E' = E
    BY <1>3, <2>1
  <2>. HIDE DEF A, B, C, D, E
  <2>. QED  BY <1>0, <2>2, <2>3
<1>4. ASSUME func_val_list' = func_val_list \cup {x},
             UNCHANGED <<wcli_list, func_result_list, fetched_handles, view_list>>
      PROVE  Objects' = Objects \cup {<<"value", x>>}
  <2>1. Clients' = Clients
    BY <1>4 DEF Clients
  <2>2. D' = D \cup {<<"value", x>>}
    BY <1>4, <2>1, TaggedChanges DEF Tagged
  <2>3. A' = A /\ B' = B /\ C' = C /\ E' = E
    BY <1>4, <2>1
  <2>. HIDE DEF A, B, C, D, E
  <2>. QED  BY <1>0, <2>2, <2>3
<1>5. ASSUME view_list' = view_list \cup {x},
             UNCHANGED <<wcli_list, func_result_list, fetched_handles, func_val_list>>
      PROVE  Objects' = Objects \cup {<<"view", x>>}
  <2>1. Clients' = Clients
    BY <1>5 DEF Clients
  <2>2. E' = E \cup {<<"view", x>>}
    BY <1>5, <2>1, TaggedChanges DEF Tagged
  <2>3. A' = A /\ B' = B /\ C' = C /\ D' = D
    BY <1>5, <2>1
  <2>. HIDE DEF A, B, C, D, E
  <2>. QED  BY <1>0, <2>2, <2>3
<1>. QED  BY <1>1, <1>2, <1>3, <1>4, <1>5

\* One list loses an entry: so do the objects.
LEMMA ObjectsDrop ==
    ASSUME NEW x
    PROVE  /\ wcli_list' = wcli_list \ {x}
              /\ UNCHANGED <<func_result_list, fetched_handles, func_val_list, view_list>>
              => Objects' = Objects \ {<<"client", [at |-> x]>>}
           /\ func_result_list' = func_result_list \ {x}
              /\ UNCHANGED <<wcli_list, fetched_handles, func_val_list, view_list>>
              => Objects' = Objects \ {<<"promise", x>>}
           /\ fetched_handles' = fetched_handles \ {x}
              /\ UNCHANGED <<wcli_list, func_result_list, func_val_list, view_list>>
              => Objects' = Objects \ {<<"handle", x>>}
           /\ func_val_list' = func_val_list \ {x}
              /\ UNCHANGED <<wcli_list, func_result_list, fetched_handles, view_list>>
              => Objects' = Objects \ {<<"value", x>>}
           /\ view_list' = view_list \ {x}
              /\ UNCHANGED <<wcli_list, func_result_list, fetched_handles, func_val_list>>
              => Objects' = Objects \ {<<"view", x>>}
<1> DEFINE A == Tagged("client", Clients)
           B == Tagged("promise", func_result_list)
           C == Tagged("handle", fetched_handles)
           D == Tagged("value", func_val_list)
           E == Tagged("view", view_list)
<1>0. Objects = A \cup B \cup C \cup D \cup E /\ (Objects = A \cup B \cup C \cup D \cup E)'
  BY DEF Objects
<1>1. ASSUME wcli_list' = wcli_list \ {x},
             UNCHANGED <<func_result_list, fetched_handles, func_val_list, view_list>>
      PROVE  Objects' = Objects \ {<<"client", [at |-> x]>>}
  <2>1. Clients' = Clients \ {[at |-> x]}
    BY <1>1, ClientTagged DEF Clients
  <2>2. A' = A \ {<<"client", [at |-> x]>>}
    BY <1>1, <2>1, TaggedChanges DEF Tagged
  <2>3. B' = B /\ C' = C /\ D' = D /\ E' = E
    BY <1>1, <2>1
  <2>4. <<"client", [at |-> x]>> \notin B /\ <<"client", [at |-> x]>> \notin C /\ <<"client", [at |-> x]>> \notin D /\ <<"client", [at |-> x]>> \notin E
    BY DEF Tagged
  <2>. HIDE DEF A, B, C, D, E
  <2>. QED  BY <1>0, <2>2, <2>3, <2>4
<1>2. ASSUME func_result_list' = func_result_list \ {x},
             UNCHANGED <<wcli_list, fetched_handles, func_val_list, view_list>>
      PROVE  Objects' = Objects \ {<<"promise", x>>}
  <2>1. Clients' = Clients
    BY <1>2 DEF Clients
  <2>2. B' = B \ {<<"promise", x>>}
    BY <1>2, <2>1, TaggedChanges DEF Tagged
  <2>3. A' = A /\ C' = C /\ D' = D /\ E' = E
    BY <1>2, <2>1
  <2>4. <<"promise", x>> \notin A /\ <<"promise", x>> \notin C /\ <<"promise", x>> \notin D /\ <<"promise", x>> \notin E
    BY DEF Tagged
  <2>. HIDE DEF A, B, C, D, E
  <2>. QED  BY <1>0, <2>2, <2>3, <2>4
<1>3. ASSUME fetched_handles' = fetched_handles \ {x},
             UNCHANGED <<wcli_list, func_result_list, func_val_list, view_list>>
      PROVE  Objects' = Objects \ {<<"handle", x>>}
  <2>1. Clients' = Clients
    BY <1>3 DEF Clients
  <2>2. C' = C \ {<<"handle", x>>}
    BY <1>3, <2>1, TaggedChanges DEF Tagged
  <2>3. A' = A /\ B' = B /\ D' = D /\ E' = E
    BY <1>3, <2>1
  <2>4. <<"handle", x>> \notin A /\ <<"handle", x>> \notin B /\ <<"handle", x>> \notin D /\ <<"handle", x>> \notin E
    BY DEF Tagged
  <2>. HIDE DEF A, B, C, D, E
  <2>. QED  BY <1>0, <2>2, <2>3, <2>4
<1>4. ASSUME func_val_list' = func_val_list \ {x},
             UNCHANGED <<wcli_list, func_result_list, fetched_handles, view_list>>
      PROVE  Objects' = Objects \ {<<"value", x>>}
  <2>1. Clients' = Clients
    BY <1>4 DEF Clients
  <2>2. D' = D \ {<<"value", x>>}
    BY <1>4, <2>1, TaggedChanges DEF Tagged
  <2>3. A' = A /\ B' = B /\ C' = C /\ E' = E
    BY <1>4, <2>1
  <2>4. <<"value", x>> \notin A /\ <<"value", x>> \notin B /\ <<"value", x>> \notin C /\ <<"value", x>> \notin E
    BY DEF Tagged
  <2>. HIDE DEF A, B, C, D, E
  <2>. QED  BY <1>0, <2>2, <2>3, <2>4
<1>5. ASSUME view_list' = view_list \ {x},
             UNCHANGED <<wcli_list, func_result_list, fetched_handles, func_val_list>>
      PROVE  Objects' = Objects \ {<<"view", x>>}
  <2>1. Clients' = Clients
    BY <1>5 DEF Clients
  <2>2. E' = E \ {<<"view", x>>}
    BY <1>5, <2>1, TaggedChanges DEF Tagged
  <2>3. A' = A /\ B' = B /\ C' = C /\ D' = D
    BY <1>5, <2>1
  <2>4. <<"view", x>> \notin A /\ <<"view", x>> \notin B /\ <<"view", x>> \notin C /\ <<"view", x>> \notin D
    BY DEF Tagged
  <2>. HIDE DEF A, B, C, D, E
  <2>. QED  BY <1>0, <2>2, <2>3, <2>4
<1>. QED  BY <1>1, <1>2, <1>3, <1>4, <1>5

\* A pointer that is given out, and one that is given back.
LEMMA PointerGiven ==
    ASSUME Kept(Objects, given, heap), NEW k, NEW x, NEW a, x.at = a, New(a),
           Objects' = Objects \cup {<<k, x>>}, Gives(Pointer(k, a))
    PROVE  Kept(Objects, given, heap)'
<1>1. Kept(Objects \cup {<<k, x>>}, given \cup {Pointer(k, x.at)}, heap \cup {x.at})
  BY KeptAdd DEF New
<1>2. Kept(Objects', given', heap')
  BY <1>1 DEF New, Gives
<1>. QED  BY <1>2 DEF Kept

LEMMA PointerTaken ==
    ASSUME Kept(Objects, given, heap), NEW k, NEW x, NEW a, x.at = a, <<k, x>> \in Objects,
           Objects' = Objects \ {<<k, x>>}, Takes(Pointer(k, a)), heap' = heap \ {a}
    PROVE  Kept(Objects, given, heap)'
<1>1. Kept(Objects \ {<<k, x>>}, given \ {Pointer(k, x.at)}, heap \ {x.at})
  BY KeptDrop
<1>2. Kept(Objects', given', heap')
  BY <1>1 DEF Takes
<1>. QED  BY <1>2 DEF Kept

\* The result of a promise is put into a new value, and the promise is deleted.
LEMMA ResultTaken ==
    ASSUME Kept(Objects, given, heap), NEW p \in func_result_list, NEW w, NEW a,
           TakeResult(p, w, a), UNCHANGED <<wcli_list, fetched_handles, view_list>>
    PROVE  Kept(Objects, given, heap)'
<1> DEFINE v == Value(w, a, p.call)
           with == Objects \cup {<<"value", v>>}
<1>1. v.at = a
  BY DEF Value
<1>2. Kept(with, given \cup {Pointer("value", a)}, heap \cup {a})
  <2>1. a \notin heap
    BY DEF TakeResult
  <2>. HIDE DEF v
  <2>. QED  BY <1>1, <2>1, KeptAdd
<1>3. <<"promise", p>> \in with
  BY DEF Objects, Tagged
<1>4. Kept(with \ {<<"promise", p>>},
           (given \cup {Pointer("value", a)}) \ {Pointer("promise", p.at)}, (heap \cup {a}) \ {p.at})
  <2>. HIDE DEF with
  <2>. QED  BY <1>2, <1>3, KeptDrop
<1>5. Objects' = with \ {<<"promise", p>>}
  BY DEF TakeResult, Objects, Tagged, Clients
<1>6. given' = (given \cup {Pointer("value", a)}) \ {Pointer("promise", p.at)}
  BY DEF TakeResult, Pointer
<1>7. heap' = (heap \cup {a}) \ {p.at}
  BY DEF TakeResult
<1>8. Kept(Objects', given', heap')
  BY <1>4, <1>5, <1>6, <1>7
<1>. QED  BY <1>8 DEF Kept

LEMMA MadeKept ==
    ASSUME PointersKept, CApiTypeOK, NEW w \in Width, NEW a \in Address,
           wcfInit(a) \/ wcfViewGet(w, a) \/ callback(w, a) \/ wcfFuncFetchCall(w, a)
           \/ (\E c \in Call : wcfFuncRunAsync(c, a)) \/ (\E t \in Thread : ReturnRun(t, w, a))
    PROVE  PointersKept'
<1> USE DEF PointersKept
<1>1. CASE wcfInit(a)
  <2>1. Objects' = Objects \cup {<<"client", [at |-> a]>>}
    <3>1. wcli_list' = wcli_list \cup {a}
      BY <1>1 DEF wcfInit
    <3>. QED  BY <1>1, <3>1, ObjectsAdd DEF wcfInit
  <2>2. Kept(Objects, given, heap)'
    BY <1>1, <2>1, PointerGiven DEF wcfInit
  <2>. QED  BY <1>1, <2>2 DEF wcfInit, WaitedForKept
<1>2. CASE wcfViewGet(w, a)
  <2> DEFINE x == [w |-> w, at |-> a]
  <2>1. Objects' = Objects \cup {<<"view", x>>}
    BY <1>2, ObjectsAdd DEF wcfViewGet
  <2>2. Kept(Objects, given, heap)'
    BY <1>2, <2>1, PointerGiven DEF wcfViewGet
  <2>. QED  BY <1>2, <2>2 DEF wcfViewGet, WaitedForKept
<1>3. ASSUME NEW c, createHandle(w, a, c), UNCHANGED <<wcli_list, func_result_list, func_val_list,
                                                       view_list, waiting>>
      PROVE  PointersKept'
  <2> DEFINE x == [w |-> w, at |-> a, call |-> c]
  <2>1. Objects' = Objects \cup {<<"handle", x>>}
    BY <1>3, ObjectsAdd DEF createHandle
  <2>2. Kept(Objects, given, heap)'
    BY <1>3, <2>1, PointerGiven DEF createHandle
  <2>. QED  BY <1>3, <2>2 DEF WaitedForKept
<1>4. CASE callback(w, a) \/ wcfFuncFetchCall(w, a)
  BY <1>3, <1>4 DEF callback, wcfFuncFetchCall
<1>5. ASSUME NEW c \in Call, wcfFuncRunAsync(c, a) PROVE PointersKept'
  <2>1. Objects' = Objects \cup {<<"promise", Promise(a, c)>>}
    BY <1>5, ObjectsAdd DEF wcfFuncRunAsync
  <2>2. Kept(Objects, given, heap)'
    BY <1>5, <2>1, PointerGiven DEF wcfFuncRunAsync, Promise
  <2>. QED  BY <1>5, <2>2 DEF wcfFuncRunAsync, WaitedForKept
<1>6. ASSUME NEW t \in Thread, ReturnRun(t, w, a) PROVE PointersKept'
  <2>1. PICK p \in waiting[t] :
           /\ New(a) /\ func_val_list' = func_val_list \cup {Value(w, a, p.call)}
           /\ Gives(Pointer("value", a)) /\ waiting' = [waiting EXCEPT ![t] = {}]
           /\ UNCHANGED <<wcli_list, func_result_list, fetched_handles, view_list>>
    BY <1>6 DEF ReturnRun
  <2>2. Objects' = Objects \cup {<<"value", Value(w, a, p.call)>>}
    BY <2>1, ObjectsAdd
  <2>3. Kept(Objects, given, heap)'
    BY <2>1, <2>2, PointerGiven DEF Value
  <2>. QED  BY <2>1, <2>3 DEF WaitedForKept, CApiTypeOK
<1>. QED  BY <1>1, <1>2, <1>4, <1>5, <1>6

LEMMA GivenBackKept ==
    ASSUME PointersKept, NEW w \in Width, NEW a \in Address,
           wcfClose(a) \/ wcfFuncRespond(w, a) \/ wcfDestroy(a), ~raced'
    PROVE  PointersKept'
<1> USE DEF PointersKept
<1>1. CASE wcfClose(a)
  <2>1. Objects' = Objects \ {<<"client", [at |-> a]>>}
    BY <1>1, ObjectsDrop DEF wcfClose
  <2>2. <<"client", [at |-> a]>> \in Objects
    BY <1>1 DEF wcfClose, Objects, Tagged, Clients
  <2>3. Kept(Objects, given, heap)'
    BY <1>1, <2>1, <2>2, PointerTaken DEF wcfClose
  <2>. QED  BY <1>1, <2>3 DEF wcfClose, WaitedForKept
<1>2. CASE wcfFuncRespond(w, a)
  <2>1. PICK h \in fetched_handles : h.at = a /\ fetched_handles' = fetched_handles \ {h}
    BY <1>2 DEF wcfFuncRespond
  <2>2. Objects' = Objects \ {<<"handle", h>>}
    BY <1>2, <2>1, ObjectsDrop DEF wcfFuncRespond
  <2>3. <<"handle", h>> \in Objects
    BY DEF Objects, Tagged
  <2>4. Kept(Objects, given, heap)'
    BY <1>2, <2>1, <2>2, <2>3, PointerTaken DEF wcfFuncRespond
  <2>. QED  BY <1>2, <2>4 DEF wcfFuncRespond, WaitedForKept
<1>3. ASSUME NEW v \in func_val_list, v.at = a, func_val_list' = func_val_list \ {v},
             Takes(Pointer("value", a)), wcfDestroy(a),
             UNCHANGED <<view_list, func_result_list>>
      PROVE  PointersKept'
  <2>1. Objects' = Objects \ {<<"value", v>>}
    BY <1>3, ObjectsDrop DEF wcfDestroy
  <2>2. <<"value", v>> \in Objects
    BY DEF Objects, Tagged
  <2>3. Kept(Objects, given, heap)'
    BY <1>3, <2>1, <2>2, PointerTaken DEF wcfDestroy
  <2>. QED  BY <1>3, <2>3 DEF wcfDestroy, WaitedForKept
<1>4. ASSUME NEW v \in view_list, v.at = a, view_list' = view_list \ {v},
             Takes(Pointer("view", a)), wcfDestroy(a),
             UNCHANGED <<func_val_list, func_result_list>>
      PROVE  PointersKept'
  <2>1. Objects' = Objects \ {<<"view", v>>}
    BY <1>4, ObjectsDrop DEF wcfDestroy
  <2>2. <<"view", v>> \in Objects
    BY DEF Objects, Tagged
  <2>3. Kept(Objects, given, heap)'
    BY <1>4, <2>1, <2>2, PointerTaken DEF wcfDestroy
  <2>. QED  BY <1>4, <2>3 DEF wcfDestroy, WaitedForKept
<1>5. ASSUME NEW p \in func_result_list, p.at = a, func_result_list' = func_result_list \ {p},
             raced' = (raced \/ OnPromise(p)), Takes(Pointer("promise", a)), wcfDestroy(a),
             UNCHANGED <<func_val_list, view_list>>
      PROVE  PointersKept'
  <2>1. Objects' = Objects \ {<<"promise", p>>}
    BY <1>5, ObjectsDrop DEF wcfDestroy
  <2>2. <<"promise", p>> \in Objects
    BY DEF Objects, Tagged
  <2>3. Kept(Objects, given, heap)'
    BY <1>5, <2>1, <2>2, PointerTaken DEF wcfDestroy
  <2>4. ~OnPromise(p)
    BY <1>5
  <2>. QED  BY <1>5, <2>3, <2>4 DEF wcfDestroy, WaitedForKept, OnPromise
<1>. QED  BY <1>1, <1>2, <1>3, <1>4, <1>5 DEF wcfDestroy

LEMMA ResultKept ==
    ASSUME PointersKept, CApiTypeOK, NEW t \in Thread, NEW w \in Width, NEW a \in Address,
           ReturnWait(t, w, a) \/ (\E p \in func_result_list : wcfFuncGetResult(t, p, w, a)),
           ~raced'
    PROVE  PointersKept'
<1> USE DEF PointersKept
<1>1. ASSUME NEW p \in func_result_list, wcfFuncGetResult(t, p, w, a)
      PROVE  PointersKept'
  <2>1. Kept(Objects, given, heap)'
    BY <1>1, ResultTaken DEF wcfFuncGetResult
  <2>2. ~OnPromise(p) /\ func_result_list' = func_result_list \ {p} /\ UNCHANGED waiting
    BY <1>1 DEF wcfFuncGetResult, TakeResult
  <2>. QED  BY <2>1, <2>2 DEF WaitedForKept, OnPromise
<1>2. ASSUME ReturnWait(t, w, a)
      PROVE  PointersKept'
  <2>1. PICK p \in waiting[t] :
           /\ p.at # "stack" /\ TakeResult(p, w, a) /\ waiting' = [waiting EXCEPT ![t] = {}]
           /\ raced' = (raced \/ \E u \in Thread \ {t} : p \in waiting[u])
           /\ UNCHANGED <<wcli_list, fetched_handles, view_list>>
    BY <1>2 DEF ReturnWait
  <2>2. p \in func_result_list
    BY <2>1 DEF WaitedForKept
  <2>3. Kept(Objects, given, heap)'
    BY <2>1, <2>2, ResultTaken
  <2>4. \A u \in Thread : p \notin waiting'[u]
    BY <2>1 DEF CApiTypeOK
  <2>. QED  BY <2>1, <2>3, <2>4 DEF WaitedForKept, TakeResult, CApiTypeOK
<1>. QED  BY <1>1, <1>2

LEMMA WaitingKept ==
    ASSUME PointersKept, CApiTypeOK, UNCHANGED <<lists, given>>,
           \/ UNCHANGED waiting
           \/ \E t \in Thread, p \in func_result_list : waiting' = [waiting EXCEPT ![t] = {p}]
           \/ \E t \in Thread, c \in Call :
                 waiting' = [waiting EXCEPT ![t] = {Promise("stack", c)}]
    PROVE  PointersKept'
<1>1. (Kept(Objects, given, heap))'
  BY DEF PointersKept, lists, Kept, Objects, Tagged, Clients
<1>2. WaitedForKept'
  BY DEF PointersKept, WaitedForKept, lists, Promise, CApiTypeOK
<1>. QED  BY <1>1, <1>2 DEF PointersKept

LEMMA StartTypes ==
    ASSUME CApiTypeOK, NEW c \in Call, Start(c)
    PROVE  /\ func' \in {"none", "callback", "listener"}
           /\ func_listener_handlers' \in Seq(Call) /\ calling' \subseteq Call
           /\ answer' \in [Call -> Answers \cup {"none", "unused"}]
<1>1. Append(func_listener_handlers, c) \in Seq(Call)
  BY DEF CApiTypeOK
<1>2. \A x \in {"notFound", "rejection", "none"} :
         [answer EXCEPT ![c] = x] \in [Call -> Answers \cup {"none", "unused"}]
  BY DEF CApiTypeOK, Answers
<1>3. answer' \in [Call -> Answers \cup {"none", "unused"}]
  BY <1>2 DEF Start
<1>4. func' \in {"none", "callback", "listener"} /\ calling' \subseteq Call
  BY DEF CApiTypeOK, Start
<1>5. func_listener_handlers' \in Seq(Call)
  BY <1>1 DEF CApiTypeOK, Start
<1>. QED  BY <1>3, <1>4, <1>5

LEMMA MadeTypes ==
    ASSUME CApiTypeOK, NEW w \in Width, NEW a \in Address,
           wcfInit(a) \/ wcfViewGet(w, a) \/ callback(w, a) \/ wcfFuncFetchCall(w, a)
           \/ (\E c \in Call : wcfFuncRunAsync(c, a)) \/ (\E t \in Thread : ReturnRun(t, w, a))
    PROVE  CApiTypeOK'
<1>1. CASE wcfInit(a)
  BY <1>1 DEF CApiTypeOK, wcfInit, funcs, history
<1>2. CASE wcfViewGet(w, a)
  BY <1>2 DEF CApiTypeOK, wcfViewGet, funcs, history
<1>3. CASE callback(w, a)
  BY <1>3 DEF CApiTypeOK, callback, createHandle, history
<1>4. CASE wcfFuncFetchCall(w, a)
  <2>1. /\ Head(func_listener_handlers) \in Call
        /\ Tail(func_listener_handlers) \in Seq(Call)
    BY <1>4 DEF CApiTypeOK, wcfFuncFetchCall
  <2>. QED  BY <1>4, <2>1 DEF CApiTypeOK, wcfFuncFetchCall, createHandle, history
<1>5. ASSUME NEW c \in Call, wcfFuncRunAsync(c, a) PROVE CApiTypeOK'
  <2>1. /\ func' \in {"none", "callback", "listener"}
        /\ func_listener_handlers' \in Seq(Call) /\ calling' \subseteq Call
        /\ answer' \in [Call -> Answers \cup {"none", "unused"}]
    BY <1>5, StartTypes DEF wcfFuncRunAsync, history
  <2>. QED  BY <1>5, <2>1 DEF CApiTypeOK, wcfFuncRunAsync, Promise, history
<1>6. ASSUME NEW t \in Thread, ReturnRun(t, w, a) PROVE CApiTypeOK'
  BY <1>6 DEF CApiTypeOK, ReturnRun, Value, funcs, history
<1>. QED  BY <1>1, <1>2, <1>3, <1>4, <1>5, <1>6

LEMMA OtherTypes ==
    ASSUME CApiTypeOK, NEW w, NEW a,
           \/ wcfClose(a) \/ wcfFuncSet \/ wcfFuncRespond(w, a) \/ wcfDestroy(a)
           \/ \E t \in Thread, p \in func_result_list : wcfFuncWaitResult(t, p)
           \/ \E t \in Thread, c \in Call : wcfFuncRun(t, c)
    PROVE  CApiTypeOK'
<1>1. CASE wcfClose(a)
  <2>1. /\ dropped' \subseteq Call
        /\ <<>> \in Seq(Call)
    BY <1>1, SeqElement DEF CApiTypeOK, wcfClose
  <2>. QED  BY <1>1, <2>1 DEF CApiTypeOK, wcfClose
<1>2. CASE wcfFuncSet
  BY <1>2 DEF CApiTypeOK, wcfFuncSet, lists, history
<1>3. CASE wcfFuncRespond(w, a)
  <2>1. PICK h \in fetched_handles, x \in {"response", "rejection"} :
           answer' = [answer EXCEPT ![h.call] = x] /\ fetched_handles' = fetched_handles \ {h}
    BY <1>3 DEF wcfFuncRespond
  <2>2. answer' \in [Call -> Answers \cup {"none", "unused"}]
    BY <2>1 DEF CApiTypeOK, Answers
  <2>. QED  BY <1>3, <2>1, <2>2 DEF CApiTypeOK, wcfFuncRespond, funcs, history
<1>4. CASE wcfDestroy(a)
  BY <1>4 DEF CApiTypeOK, wcfDestroy, funcs, OnPromise
<1>5. ASSUME NEW t \in Thread, NEW p \in func_result_list, wcfFuncWaitResult(t, p)
      PROVE  CApiTypeOK'
  BY <1>5 DEF CApiTypeOK, wcfFuncWaitResult, lists, funcs, history
<1>6. ASSUME NEW t \in Thread, NEW c \in Call, wcfFuncRun(t, c)
      PROVE  CApiTypeOK'
  <2>1. /\ func' \in {"none", "callback", "listener"}
        /\ func_listener_handlers' \in Seq(Call) /\ calling' \subseteq Call
        /\ answer' \in [Call -> Answers \cup {"none", "unused"}]
    BY <1>6, StartTypes DEF wcfFuncRun, history
  <2>. QED  BY <1>6, <2>1 DEF CApiTypeOK, wcfFuncRun, Promise, lists, history
<1>. QED  BY <1>1, <1>2, <1>3, <1>4, <1>5, <1>6

LEMMA ResultTypes ==
    ASSUME CApiTypeOK, NEW w \in Width, NEW a \in Address, NEW t \in Thread,
           ReturnWait(t, w, a) \/ \E p \in func_result_list : wcfFuncGetResult(t, p, w, a)
    PROVE  CApiTypeOK'
<1>1. CASE ReturnWait(t, w, a)
  BY <1>1 DEF CApiTypeOK, ReturnWait, TakeResult, Value, funcs
<1>2. ASSUME NEW p \in func_result_list, wcfFuncGetResult(t, p, w, a)
      PROVE  CApiTypeOK'
  BY <1>2 DEF CApiTypeOK, wcfFuncGetResult, TakeResult, Value, funcs, OnPromise
<1>. QED  BY <1>1, <1>2

LEMMA StartCallsWait ==
    ASSUME CApiTypeOK, CallsWait, NEW c \in Call, Start(c),
           UNCHANGED <<fetched_handles, func_val_list, dropped>>
    PROVE  CallsWait'
<1>1. /\ ~InQueue(c) /\ ~InHandles(c) /\ c \notin calling /\ c \notin dropped
      /\ answer[c] = "unused"
  BY DEF CallsWait, Start
<1>2. /\ c \notin calling' /\ func_listener_handlers' = func_listener_handlers
         /\ answer'[c] # "none" /\ calling' = calling
      \/ /\ calling' = calling \cup {c} /\ func_listener_handlers' = func_listener_handlers
         /\ answer'[c] = "none"
      \/ /\ calling' = calling /\ answer'[c] = "none"
         /\ func_listener_handlers' = Append(func_listener_handlers, c)
  BY <1>1 DEF Start, CApiTypeOK
<1>3. answer' \in [Call -> Answers \cup {"none", "unused"}]
  BY StartTypes
<1>4. \A d \in Call \ {c} : answer'[d] = answer[d]
  BY DEF Start, CApiTypeOK
<1>5. \A d : InHandles(d)' <=> InHandles(d)
  BY DEF InHandles
<1>6. \A d : d # c => (InQueue(d)' <=> InQueue(d))
  BY <1>2 DEF InQueue, CApiTypeOK
<1>7. InQueue(c)' <=> func_listener_handlers' # func_listener_handlers
  <2>1. \A q \in Seq(Call) : Append(q, c) # q /\ \E i \in DOMAIN Append(q, c) : Append(q, c)[i] = c
    OBVIOUS
  <2>2. func_listener_handlers \in Seq(Call)
    BY DEF CApiTypeOK
  <2>. QED  BY <1>1, <1>2, <2>1, <2>2 DEF InQueue
<1>8. \A d \in Call : OnePlace(d)'
  <2> SUFFICES ASSUME NEW d \in Call PROVE OnePlace(d)'
    OBVIOUS
  <2>1. OnePlace(d)
    BY DEF CallsWait
  <2>2. \A i, j \in DOMAIN func_listener_handlers' :
           func_listener_handlers'[i] = d /\ func_listener_handlers'[j] = d => i = j
    <3>1. \A i, j \in DOMAIN func_listener_handlers :
             func_listener_handlers[i] = d /\ func_listener_handlers[j] = d => i = j
      BY <2>1 DEF OnePlace
    <3>2. d = c => \A i \in DOMAIN func_listener_handlers : func_listener_handlers[i] # d
      BY <1>1 DEF InQueue
    <3>. QED  BY <1>2, <3>1, <3>2 DEF CApiTypeOK
  <2>3. d \in calling' <=> d \in calling \/ (d = c /\ c \in calling')
    BY <1>1, <1>2
  <2>4. ~(c \in calling' /\ InQueue(c)')
    BY <1>1, <1>2, <1>7
  <2>. QED  BY <1>1, <1>5, <1>6, <2>1, <2>2, <2>3, <2>4 DEF OnePlace
<1>9. \A d \in Call : /\ d \in calling' \/ InQueue(d)' \/ InHandles(d)'
                            <=> answer'[d] = "none" /\ d \notin dropped'
                      /\ d \in dropped' => answer'[d] = "none"
  BY <1>1, <1>2, <1>4, <1>5, <1>6, <1>7 DEF CallsWait
<1>10. \A v \in func_val_list' : v.answer = answer'[v.call]
  <2>1. \A v \in func_val_list : v.call \in Call /\ v.answer \in Answers
    BY DEF CApiTypeOK
  <2>. QED  BY <1>1, <1>4, <2>1 DEF CallsWait, Answers
<1>. QED  BY <1>8, <1>9, <1>10 DEF CallsWait

\* Nothing else is answered or moved.
LEMMA SameCallsWait ==
    ASSUME CallsWait, UNCHANGED <<calling, func_listener_handlers, fetched_handles, answer, dropped>>,
           \A v \in func_val_list' \ func_val_list : v.answer = answer[v.call]
    PROVE  CallsWait'
BY DEF CallsWait, OnePlace, InQueue, InHandles

LEMMA HandleAdded ==
    ASSUME NEW w, NEW a, NEW c,
           fetched_handles' = fetched_handles \cup {[w |-> w, at |-> a, call |-> c]}
    PROVE  \A d : InHandles(d)' <=> InHandles(d) \/ d = c
<1> DEFINE x == [w |-> w, at |-> a, call |-> c]
<1>1. x.call = c /\ fetched_handles' = fetched_handles \cup {x}
  OBVIOUS
<1> HIDE DEF x
<1>2. x \in fetched_handles'
  BY <1>1
<1>3. \A d : d = c => \E h \in fetched_handles' : h.call = d
  BY <1>1, <1>2
<1>. QED  BY <1>1, <1>3 DEF InHandles

LEMMA HandleCallsWait ==
    ASSUME CApiTypeOK, CallsWait, NEW w, NEW a, callback(w, a) \/ wcfFuncFetchCall(w, a)
    PROVE  CallsWait'
<1>1. ASSUME NEW c \in calling, createHandle(w, a, c), calling' = calling \ {c},
             UNCHANGED <<func_val_list, func_listener_handlers, answer, dropped>>
      PROVE  CallsWait'
  <2>1. \A d : InHandles(d)' <=> InHandles(d) \/ d = c
    BY <1>1, HandleAdded DEF createHandle
  <2>2. \A d : InQueue(d)' <=> InQueue(d)
    BY <1>1 DEF InQueue
  <2>3. ~InHandles(c) /\ ~InQueue(c) /\ c \in Call
    BY <1>1 DEF CApiTypeOK, CallsWait, OnePlace
  <2>4. \A d \in Call : OnePlace(d)'
    <3> SUFFICES ASSUME NEW d \in Call PROVE OnePlace(d)'
      OBVIOUS
    <3>1. OnePlace(d)
      BY DEF CallsWait
    <3>2. \A g, h \in fetched_handles' : g.call = d /\ h.call = d => g = h
      BY <1>1, <2>3, <3>1 DEF createHandle, OnePlace, InHandles
    <3>. QED  BY <1>1, <2>1, <2>2, <2>3, <3>1, <3>2 DEF OnePlace
  <2>. QED  BY <1>1, <2>1, <2>2, <2>3, <2>4 DEF CallsWait
<1>2. ASSUME func_listener_handlers # <<>>, createHandle(w, a, Head(func_listener_handlers)),
             func_listener_handlers' = Tail(func_listener_handlers),
             UNCHANGED <<func_val_list, calling, answer, dropped>>
      PROVE  CallsWait'
  <2> DEFINE q == func_listener_handlers
             c == Head(q)
  <2>1. q \in Seq(Call) /\ q # <<>>
    BY <1>2 DEF CApiTypeOK
  <2>2. /\ Len(q) \in Nat \ {0} /\ DOMAIN q = 1 .. Len(q) /\ c = q[1] /\ c \in Call
        /\ DOMAIN Tail(q) = 1 .. Len(q) - 1 /\ \A i \in 1 .. Len(q) - 1 : Tail(q)[i] = q[i + 1]
    BY <2>1
  <2>3. \A i, j \in DOMAIN q : \A d \in Call : q[i] = d /\ q[j] = d => i = j
    BY DEF CallsWait, OnePlace
  <2>4. func_listener_handlers' = Tail(q) /\ fetched_handles' = fetched_handles \cup {[w |-> w, at |-> a, call |-> c]}
    BY <1>2 DEF createHandle
  <2>5. InQueue(c)
    BY <2>2 DEF InQueue
  <2> HIDE DEF c
  <2>6. ~InHandles(c) /\ c \notin calling
    BY <2>2, <2>5 DEF CallsWait, OnePlace
  <2>7. \A d : InHandles(d)' <=> InHandles(d) \/ d = c
    BY <2>4, HandleAdded
  <2>8. \A d \in Call : InQueue(d)' <=> InQueue(d) /\ d # c
    <3> SUFFICES ASSUME NEW d \in Call PROVE InQueue(d)' <=> InQueue(d) /\ d # c
      OBVIOUS
    <3>1. InQueue(d)' <=> \E i \in 1 .. Len(q) - 1 : q[i + 1] = d
      BY <2>2, <2>4 DEF InQueue
    <3>2. InQueue(d) <=> \E i \in 1 .. Len(q) : q[i] = d
      BY <2>2 DEF InQueue
    <3>3. \A i \in 1 .. Len(q) - 1 : i + 1 \in 1 .. Len(q) /\ i + 1 # 1
      BY <2>2
    <3>4. \A i \in 1 .. Len(q) : i = 1 \/ (i - 1 \in 1 .. Len(q) - 1 /\ (i - 1) + 1 = i)
      BY <2>2
    <3>5. 1 \in DOMAIN q
      BY <2>2
    <3> HIDE DEF q
    <3>6. InQueue(d)' => InQueue(d) /\ d # c
      BY <2>2, <2>3, <3>1, <3>2, <3>3, <3>5
    <3>7. InQueue(d) /\ d # c => InQueue(d)'
      BY <2>2, <3>1, <3>2, <3>4
    <3>. QED  BY <3>6, <3>7
  <2>9. \A d \in Call : OnePlace(d)'
    <3> SUFFICES ASSUME NEW d \in Call PROVE OnePlace(d)'
      OBVIOUS
    <3>1. OnePlace(d)
      BY DEF CallsWait
    <3>2. \A g, h \in fetched_handles' : g.call = d /\ h.call = d => g = h
      BY <2>4, <2>6, <3>1 DEF OnePlace, InHandles
    <3>3. \A i, j \in DOMAIN func_listener_handlers' :
             func_listener_handlers'[i] = d /\ func_listener_handlers'[j] = d => i = j
      <4>1. \A i \in 1 .. Len(q) - 1 : i + 1 \in 1 .. Len(q) /\ i \in Nat
        BY <2>2
      <4> HIDE DEF q
      <4>2. \A i, j \in 1 .. Len(q) - 1 : q[i + 1] = d /\ q[j + 1] = d => i + 1 = j + 1
        BY <2>2, <2>3, <4>1
      <4>. QED  BY <2>2, <2>4, <4>1, <4>2
    <3>. QED  BY <1>2, <2>6, <2>7, <2>8, <3>1, <3>2, <3>3 DEF OnePlace
  <2>. QED  BY <1>2, <2>2, <2>5, <2>7, <2>8, <2>9 DEF CallsWait
<1>. QED  BY <1>1, <1>2 DEF callback, wcfFuncFetchCall, history

LEMMA RespondCallsWait ==
    ASSUME CApiTypeOK, CallsWait, NEW w, NEW a, wcfFuncRespond(w, a)
    PROVE  CallsWait'
<1>1. PICK h \in fetched_handles, x \in {"response", "rejection"} :
         answer' = [answer EXCEPT ![h.call] = x] /\ fetched_handles' = fetched_handles \ {h}
  BY DEF wcfFuncRespond
<1>2. UNCHANGED <<calling, func_listener_handlers, func_val_list, dropped>>
  BY DEF wcfFuncRespond, funcs, history
<1> DEFINE c == h.call
<1>3. c \in Call /\ InHandles(c)
  BY DEF CApiTypeOK, InHandles
<1>4. /\ answer[c] = "none" /\ c \notin dropped /\ c \notin calling /\ ~InQueue(c)
      /\ \A g \in fetched_handles : g.call = c => g = h
  BY <1>3 DEF CallsWait, OnePlace
<1>5. answer'[c] \notin {"none", "unused"} /\ \A d \in Call \ {c} : answer'[d] = answer[d]
  BY <1>1, <1>3 DEF CApiTypeOK
<1>6. \A d : InHandles(d)' <=> InHandles(d) /\ d # c
  BY <1>1, <1>4 DEF InHandles
<1>7. \A d : InQueue(d)' <=> InQueue(d)
  BY <1>2 DEF InQueue
<1>8. \A d \in Call : OnePlace(d)'
  BY <1>1, <1>2, <1>6, <1>7 DEF CallsWait, OnePlace
<1>9. \A v \in func_val_list' : v.answer = answer'[v.call]
  <2>1. \A v \in func_val_list : v.call \in Call /\ v.answer \in Answers
    BY DEF CApiTypeOK
  <2>. QED  BY <1>2, <1>4, <1>5, <2>1 DEF CallsWait, Answers
<1>10. \A d \in Call : /\ d \in calling' \/ InQueue(d)' \/ InHandles(d)'
                            <=> answer'[d] = "none" /\ d \notin dropped'
                       /\ d \in dropped' => answer'[d] = "none"
  BY <1>2, <1>4, <1>5, <1>6, <1>7 DEF CallsWait
<1>. QED  BY <1>8, <1>9, <1>10 DEF CallsWait

LEMMA CloseCallsWait ==
    ASSUME CApiTypeOK, CallsWait, NEW a, wcfClose(a)
    PROVE  CallsWait'
<1>1. UNCHANGED <<calling, fetched_handles, func_val_list, answer>> /\ func_listener_handlers' = <<>>
  BY DEF wcfClose
<1>2. \A d : ~InQueue(d)'
  BY <1>1 DEF InQueue
<1>3. \A d : InHandles(d)' <=> InHandles(d)
  BY <1>1 DEF InHandles
<1>4. \A d : d \in dropped' <=> d \in dropped \/ InQueue(d)
  BY DEF wcfClose, InQueue
<1>5. \A d \in Call : OnePlace(d)'
  BY <1>1, <1>2, <1>3 DEF CallsWait, OnePlace
<1>6. \A d \in Call : /\ d \in calling' \/ InQueue(d)' \/ InHandles(d)'
                            <=> answer'[d] = "none" /\ d \notin dropped'
                      /\ d \in dropped' => answer'[d] = "none"
  BY <1>1, <1>2, <1>3, <1>4 DEF CallsWait, OnePlace
<1>. QED  BY <1>1, <1>5, <1>6 DEF CallsWait

LEMMA CApiInitInv == CApiInit => CApiInv
<1> SUFFICES ASSUME CApiInit PROVE CApiInv
  OBVIOUS
<1> USE DEF CApiInit
<1>1. CApiTypeOK
  <2>1. func_listener_handlers \in Seq(Call)
    OBVIOUS
  <2>2. answer \in [Call -> Answers \cup {"none", "unused"}]
    OBVIOUS
  <2>. QED  BY <2>1, <2>2 DEF CApiTypeOK
<1>2. CallsWait
  BY DEF CallsWait, OnePlace, InQueue, InHandles
<1>3. Objects = {}
  BY DEF Objects, Tagged, Clients
<1>4. PointersKept
  BY <1>3, FS_EmptySet DEF PointersKept, Kept, WaitedForKept
<1>. QED  BY <1>1, <1>2, <1>4 DEF CApiInv

LEMMA ValueCallsWait ==
    ASSUME CApiTypeOK, CallsWait, NEW w, NEW a,
           \/ \E t \in Thread : ReturnRun(t, w, a) \/ ReturnWait(t, w, a)
           \/ \E t \in Thread, p \in func_result_list : wcfFuncGetResult(t, p, w, a)
    PROVE  CallsWait'
<1>1. \A c : Value(w, a, c).answer = answer[c] /\ Value(w, a, c).call = c
  BY DEF Value
<1>2. UNCHANGED <<calling, func_listener_handlers, fetched_handles, answer, dropped>>
  BY DEF ReturnRun, ReturnWait, wcfFuncGetResult, funcs, history
<1>3. PICK c : func_val_list' = func_val_list \cup {Value(w, a, c)}
  BY DEF ReturnRun, ReturnWait, wcfFuncGetResult, TakeResult
<1>. QED  BY <1>1, <1>2, <1>3, SameCallsWait

LEMMA CApiNextInv == CApiInv /\ [CApiNext]_cApiVars => CApiInv'
<1> SUFFICES ASSUME CApiInv, [CApiNext]_cApiVars PROVE CApiInv'
  OBVIOUS
<1> USE DEF CApiInv
<1>1. CASE UNCHANGED cApiVars
  <2>1. CApiTypeOK'
    BY <1>1 DEF CApiTypeOK, cApiVars, lists, funcs, history
  <2>2. CallsWait'
    BY <1>1, SameCallsWait DEF cApiVars, lists, funcs, history
  <2>3. ~raced => PointersKept'
    BY <1>1, WaitingKept DEF cApiVars
  <2>. QED  BY <1>1, <2>1, <2>2, <2>3 DEF cApiVars, history
<1>2. ASSUME ~raced, NEW w \in Width, NEW a \in Address,
             \/ wcfInit(a) \/ wcfViewGet(w, a) \/ callback(w, a) \/ wcfFuncFetchCall(w, a)
             \/ \E c \in Call : wcfFuncRunAsync(c, a)
             \/ \E t \in Thread : ReturnRun(t, w, a)
      PROVE  CApiInv'
  <2>1. CApiTypeOK' /\ PointersKept'
    BY <1>2, MadeTypes, MadeKept
  <2>2. CASE wcfInit(a) \/ wcfViewGet(w, a)
    BY <2>2, SameCallsWait, <2>1 DEF wcfInit, wcfViewGet, funcs, history
  <2>3. CASE callback(w, a) \/ wcfFuncFetchCall(w, a)
    BY <2>1, <2>3, HandleCallsWait
  <2>4. ASSUME NEW c \in Call, wcfFuncRunAsync(c, a) PROVE CApiInv'
    BY <2>1, <2>4, StartCallsWait DEF wcfFuncRunAsync, history
  <2>5. CASE \E t \in Thread : ReturnRun(t, w, a)
    BY <2>1, <2>5, ValueCallsWait
  <2>. QED  BY <1>2, <2>2, <2>3, <2>4, <2>5
<1>3. ASSUME ~raced, NEW w \in Width, NEW a \in Address,
             wcfClose(a) \/ wcfFuncRespond(w, a) \/ wcfDestroy(a)
      PROVE  CApiInv'
  <2>1. CApiTypeOK'
    BY <1>3, OtherTypes
  <2>2. ~raced' => PointersKept'
    BY <1>3, GivenBackKept
  <2>3. CASE wcfClose(a)
    BY <2>1, <2>2, <2>3, CloseCallsWait
  <2>4. CASE wcfFuncRespond(w, a)
    BY <2>1, <2>2, <2>4, RespondCallsWait
  <2>5. CASE wcfDestroy(a)
    <3>1. func_val_list' \subseteq func_val_list
      BY <2>5 DEF wcfDestroy
    <3>. QED  BY <2>1, <2>2, <2>5, <3>1, SameCallsWait DEF wcfDestroy, funcs
  <2>. QED  BY <1>3, <2>3, <2>4, <2>5
<1>4. ASSUME ~raced, NEW w \in Width, NEW a \in Address, NEW t \in Thread,
             ReturnWait(t, w, a) \/ \E p \in func_result_list : wcfFuncGetResult(t, p, w, a)
      PROVE  CApiInv'
  BY <1>4, ResultTypes, ResultKept, ValueCallsWait
<1>5. ASSUME ~raced, wcfFuncSet
      PROVE  CApiInv'
  <2>1. CApiTypeOK'
    BY <1>5, OtherTypes
  <2>. QED  BY <1>5, <2>1, WaitingKept, SameCallsWait DEF wcfFuncSet, lists, history
<1>6. ASSUME ~raced, NEW t \in Thread, NEW c \in Call, wcfFuncRun(t, c)
      PROVE  CApiInv'
  <2>1. CApiTypeOK'
    BY <1>6, OtherTypes
  <2>2. PointersKept'
    BY <1>6, WaitingKept DEF wcfFuncRun
  <2>3. CallsWait'
    BY <1>6, StartCallsWait DEF wcfFuncRun, lists, history
  <2>. QED  BY <2>1, <2>2, <2>3
<1>7. ASSUME ~raced, NEW t \in Thread, NEW p \in func_result_list, wcfFuncWaitResult(t, p)
      PROVE  CApiInv'
  <2>1. CApiTypeOK'
    BY <1>7, OtherTypes
  <2>2. PointersKept'
    BY <1>7, WaitingKept DEF wcfFuncWaitResult
  <2>3. CallsWait'
    BY <1>7, SameCallsWait DEF wcfFuncWaitResult, lists, funcs, history
  <2>. QED  BY <2>1, <2>2, <2>3
<1>8. "char" \in Width
  BY DEF Width
<1>. QED  BY <1>1, <1>2, <1>3, <1>4, <1>5, <1>6, <1>7, <1>8 DEF CApiNext

\* The pointers, lists and calls of the C API agree in every reachable state (CApiInv).
THEOREM PointersConsistent == CApiSpec => []CApiInv
BY CApiInitInv, CApiNextInv, PTL DEF CApiSpec

LEMMA SameNumber ==
    ASSUME NEW S, NEW T, IsFiniteSet(S), NEW f \in [S -> T],
           \A x, y \in S : f[x] = f[y] => x = y,
           \A z \in T : \E x \in S : f[x] = z
    PROVE  IsFiniteSet(T) /\ Cardinality(T) = Cardinality(S)
<1>1. f \in Bijection(S, T)
  BY DEF Bijection, Injection, Surjection, IsInjective
<1>. QED  BY <1>1, FS_Bijection DEF ExistsBijection

LEMMA TaggedNumber ==
    ASSUME NEW k, NEW L, IsFiniteSet(Tagged(k, L))
    PROVE  Cardinality(Tagged(k, L)) = Cardinality(L)
<1> DEFINE f == [o \in Tagged(k, L) |-> o[2]]
<1>1. \A x : <<k, x>>[2] = x
  OBVIOUS
<1>2. \A o \in Tagged(k, L) : o = <<k, o[2]>> /\ o[2] \in L
  BY DEF Tagged
<1>3. f \in [Tagged(k, L) -> L]
  BY <1>2
<1>4. \A x \in L : <<k, x>> \in Tagged(k, L) /\ f[<<k, x>>] = x
  BY <1>1 DEF Tagged
<1>5. \A x, y \in Tagged(k, L) : f[x] = f[y] => x = y
  BY <1>2
<1>6. \A z \in L : \E x \in Tagged(k, L) : f[x] = z
  BY <1>4
<1> HIDE DEF f
<1>. QED  BY <1>3, <1>5, <1>6, SameNumber

\* So many objects are allocated as there are entries in the lists.
LEMMA EntriesNumber ==
    ASSUME Kept(Objects, given, heap)
    PROVE  Entries = Cardinality(heap)
<1>1. Cardinality(heap) = Cardinality(Objects)
  <2> DEFINE f == [x \in Objects |-> x[2].at]
  <2>1. f \in [Objects -> heap]
    BY DEF Kept
  <2>2. \A x, y \in Objects : f[x] = f[y] => x = y
    BY DEF Kept
  <2>3. \A z \in heap : \E x \in Objects : f[x] = z
    BY DEF Kept
  <2> HIDE DEF f
  <2>. QED  BY <2>1, <2>2, <2>3, SameNumber DEF Kept
<1> DEFINE A == Tagged("client", Clients)
           B == Tagged("promise", func_result_list)
           C == Tagged("handle", fetched_handles)
           D == Tagged("value", func_val_list)
           E == Tagged("view", view_list)
<1>2. Objects = A \cup B \cup C \cup D \cup E
  BY DEF Objects
<1>3. /\ B \cap A = {} /\ C \cap (A \cup B) = {} /\ D \cap (A \cup B \cup C) = {}
      /\ E \cap (A \cup B \cup C \cup D) = {}
  BY DEF Tagged
<1>4. IsFiniteSet(A) /\ IsFiniteSet(B) /\ IsFiniteSet(C) /\ IsFiniteSet(D) /\ IsFiniteSet(E)
  <2>1. A \in SUBSET Objects /\ B \in SUBSET Objects /\ C \in SUBSET Objects
        /\ D \in SUBSET Objects /\ E \in SUBSET Objects
    BY <1>2
  <2> HIDE DEF A, B, C, D, E
  <2>. QED  BY <2>1, FS_Subset DEF Kept
<1>5. /\ Cardinality(A) = Cardinality(Clients) /\ Cardinality(B) = Cardinality(func_result_list)
      /\ Cardinality(C) = Cardinality(fetched_handles)
      /\ Cardinality(D) = Cardinality(func_val_list) /\ Cardinality(E) = Cardinality(view_list)
  BY <1>4, TaggedNumber
<1>6. Cardinality(Clients) = Cardinality(wcli_list)
  <2> DEFINE h == [o \in A |-> o[2].at]
  <2>1. \A a : <<"client", [at |-> a]>>[2].at = a
    OBVIOUS
  <2>2. h \in [A -> wcli_list]
    BY <2>1 DEF Tagged, Clients
  <2>3. \A x, y \in A : h[x] = h[y] => x = y
    BY <2>1 DEF Tagged, Clients
  <2>4. \A z \in wcli_list : <<"client", [at |-> z]>> \in A
    BY DEF Tagged, Clients
  <2>5. \A z \in wcli_list : \E x \in A : h[x] = z
    BY <2>1, <2>4
  <2> HIDE DEF h, A
  <2>. QED  BY <1>4, <1>5, <2>2, <2>3, <2>5, SameNumber
<1> HIDE DEF A, B, C, D, E
<1>7. \A S, T : IsFiniteSet(S) /\ IsFiniteSet(T) /\ T \cap S = {}
         => IsFiniteSet(S \cup T) /\ Cardinality(S \cup T) = Cardinality(S) + Cardinality(T)
  <2> SUFFICES ASSUME NEW S, NEW T, IsFiniteSet(S), IsFiniteSet(T), T \cap S = {}
               PROVE  IsFiniteSet(S \cup T) /\ Cardinality(S \cup T) = Cardinality(S) + Cardinality(T)
    OBVIOUS
  <2>1. /\ IsFiniteSet(S \cup T)
        /\ Cardinality(S \cup T) = Cardinality(S) + Cardinality(T) - Cardinality(S \cap T)
    BY FS_Union
  <2>2. S \cap T = {} /\ Cardinality(S) \in Nat /\ Cardinality(T) \in Nat
    BY FS_CardinalityType
  <2>3. Cardinality(S \cap T) = 0
    BY <2>2, FS_EmptySet
  <2>. QED  BY <2>1, <2>2, <2>3
<1>8. /\ IsFiniteSet(A \cup B) /\ IsFiniteSet(A \cup B \cup C) /\ IsFiniteSet(A \cup B \cup C \cup D)
      /\ Cardinality(A \cup B) = Cardinality(A) + Cardinality(B)
      /\ Cardinality(A \cup B \cup C) = Cardinality(A \cup B) + Cardinality(C)
      /\ Cardinality(A \cup B \cup C \cup D) = Cardinality(A \cup B \cup C) + Cardinality(D)
  BY <1>3, <1>4, <1>7
<1>9. Cardinality(A \cup B \cup C \cup D \cup E) = Cardinality(A \cup B \cup C \cup D) + Cardinality(E)
  BY <1>3, <1>4, <1>7, <1>8
<1>. QED  BY <1>1, <1>2, <1>5, <1>6, <1>8, <1>9 DEF Entries

LEMMA OneNumber ==
    ASSUME NEW S, \A x, y \in S : x = y
    PROVE  Cardinality(S) = IF S = {} THEN 0 ELSE 1
<1>1. CASE S = {}
  BY <1>1, FS_EmptySet
<1>2. ASSUME NEW x \in S PROVE Cardinality(S) = 1
  <2>1. S = {x}
    OBVIOUS
  <2>. QED  BY <2>1, FS_Singleton
<1>. QED  BY <1>1, <1>2

\* Every pointer of the application is one of the list for its kind, and every call is
\* answered at most once (HandlesKept).
THEOREM HandlesStayValid == CApiSpec => []HandlesKept
<1>1. CApiInv => PointersValid
  <2> SUFFICES ASSUME CApiInv, ~raced PROVE /\ Listed = given
                                            /\ Entries = Cardinality(heap)
                                            /\ heap = {r.at : r \in given}
    BY DEF PointersValid
  <2>1. Kept(Objects, given, heap)
    BY DEF CApiInv, PointersKept
  <2>2. Listed = {Pointer(x[1], x[2].at) : x \in Objects}
    <3> DEFINE P(o) == Pointer(o[1], o[2].at)
    <3>1. \A k, x : P(<<k, x>>) = Pointer(k, x.at)
      OBVIOUS
    <3>2. \A a : [at |-> a].at = a
      OBVIOUS
    <3> HIDE DEF P
    <3>3. \A o \in Objects : P(o) \in Listed
      BY <3>1, <3>2 DEF Listed, Objects, Tagged, Clients
    <3>4. /\ \A a \in wcli_list : <<"client", [at |-> a]>> \in Objects
          /\ \A x \in func_result_list : <<"promise", x>> \in Objects
          /\ \A x \in fetched_handles : <<"handle", x>> \in Objects
          /\ \A x \in func_val_list : <<"value", x>> \in Objects
          /\ \A x \in view_list : <<"view", x>> \in Objects
      BY DEF Objects, Tagged, Clients
    <3> DEFINE All == {P(o) : o \in Objects}
    <3>5. /\ \A a \in wcli_list : Pointer("client", a) \in All
          /\ \A x \in func_result_list : Pointer("promise", x.at) \in All
          /\ \A x \in fetched_handles : Pointer("handle", x.at) \in All
          /\ \A x \in func_val_list : Pointer("value", x.at) \in All
          /\ \A x \in view_list : Pointer("view", x.at) \in All
      BY <3>1, <3>2, <3>4
    <3>6. \A r \in Listed : r \in All
      <4> HIDE DEF All
      <4>. QED  BY <3>5 DEF Listed
    <3>7. \A r \in All : r \in Listed
      BY <3>3
    <3>8. Listed = All
      <4> HIDE DEF All
      <4>. QED  BY <3>6, <3>7
    <3>. QED  BY <3>8 DEF P
  <2>3. \A k, a : Pointer(k, a).at = a
    BY DEF Pointer
  <2>4. {r.at : r \in given} = {x[2].at : x \in Objects}
    BY <2>1, <2>3 DEF Kept
  <2>. QED  BY <2>1, <2>2, <2>4, EntriesNumber DEF Kept
<1>2. CApiInv => AnsweredOnce
  <2> SUFFICES ASSUME CApiInv, NEW c \in Call
               PROVE  Waits(c) = IF answer[c] = "none" /\ c \notin dropped THEN 1 ELSE 0
    BY DEF AnsweredOnce, CApiInv, CallsWait
  <2> DEFINE A == {c} \cap calling
             B == {i \in DOMAIN func_listener_handlers : func_listener_handlers[i] = c}
             C == {h \in fetched_handles : h.call = c}
  <2>1. OnePlace(c)
    BY DEF CApiInv, CallsWait
  <2>2. c \in calling \/ InQueue(c) \/ InHandles(c) <=> answer[c] = "none" /\ c \notin dropped
    BY DEF CApiInv, CallsWait
  <2>3. (A # {} <=> c \in calling) /\ (B # {} <=> InQueue(c)) /\ (C # {} <=> InHandles(c))
    BY DEF InQueue, InHandles
  <2>4. (\A x, y \in A : x = y) /\ (\A x, y \in B : x = y) /\ (\A x, y \in C : x = y)
    BY <2>1 DEF OnePlace
  <2>5. Waits(c) = Cardinality(A) + Cardinality(B) + Cardinality(C)
    BY DEF Waits
  <2> HIDE DEF A, B, C
  <2>6. /\ Cardinality(A) = IF A = {} THEN 0 ELSE 1
        /\ Cardinality(B) = IF B = {} THEN 0 ELSE 1
        /\ Cardinality(C) = IF C = {} THEN 0 ELSE 1
    BY <2>4, OneNumber
  <2>. QED  BY <2>1, <2>2, <2>3, <2>5, <2>6 DEF OnePlace
<1>. QED  BY <1>1, <1>2, PointersConsistent, PTL DEF HandlesKept

(***************************************************************************)
(* Robots                                                                    *)
(***************************************************************************)

LEMMA SmallestAndLargest ==
    ASSUME NEW n \in Nat, NEW S \in SUBSET (1 .. n), S # {}
    PROVE  /\ Min(S) \in S /\ \A x \in S : Min(S) <= x
           /\ Max(S) \in S /\ \A x \in S : x <= Max(S)
<1>1. \E x \in S : \A y \in S : x <= y
  <2>1. S \subseteq Nat
    OBVIOUS
  <2>. QED  BY <2>1, SmallestOf
<1>2. \E x \in S : \A y \in S : y <= x
  <2> DEFINE T == {n - x : x \in S}
  <2>1. T \subseteq Nat /\ T # {}
    <3>1. \A x \in S : n - x \in Nat
      OBVIOUS
    <3>. QED  BY <3>1
  <2>2. PICK t \in T : \A y \in T : t <= y
    BY <2>1, SmallestOf
  <2>3. PICK x \in S : t = n - x
    OBVIOUS
  <2>. QED  BY <2>2, <2>3
<1>. QED  BY <1>1, <1>2 DEF Min, Max

LEMMA ParentsTypes ==
    ASSUME NEW ls \in Seq(Link), NEW k \in DOMAIN ls
    PROVE  /\ Parents(ls, k) \subseteq 1 .. (k - 1) /\ k \in Nat /\ k - 1 \in Nat
           /\ \A j \in Parents(ls, k) : j \in DOMAIN ls /\ LinkName[ls[j]] = ParentName[ls[k]]
           /\ Parents(ls, k) # {} => Min(Parents(ls, k)) \in Parents(ls, k)
           /\ ParentAt(ls, k) \in Int
<1>1. k \in 1 .. Len(ls) /\ k \in Nat /\ k - 1 \in Nat
  OBVIOUS
<1>2. Parents(ls, k) \subseteq 1 .. (k - 1)
  BY DEF Parents
<1>3. Parents(ls, k) # {} => Min(Parents(ls, k)) \in Parents(ls, k)
  BY <1>1, <1>2, SmallestAndLargest
<1>4. \A j \in Parents(ls, k) : j \in DOMAIN ls /\ LinkName[ls[j]] = ParentName[ls[k]]
  BY <1>1 DEF Parents
<1>5. ParentAt(ls, k) \in Int
  BY <1>2, <1>3 DEF ParentAt
<1>. QED  BY <1>1, <1>2, <1>3, <1>4, <1>5

LEMMA RobotInitInv == RobotInit => RobotInv
<1> SUFFICES ASSUME RobotInit PROVE RobotInv
  OBVIOUS
<1> USE DEF RobotInit
<1>1. RobotTypeOK
  <2>1. <<>> \in Seq(Link) /\ DOMAIN model.data = DOMAIN model.links /\ model.links \in Seq(Link)
    OBVIOUS
  <2>. QED  BY <2>1, FS_EmptySet DEF RobotTypeOK
<1>2. DOMAIN model.links = {} /\ DOMAIN model.data = {}
  OBVIOUS
<1>3. IndexFound
  BY DEF IndexFound
<1>4. JointsLocked(model.links) /\ \A m \in Model : \A ls \in robot_model_store[m] : JointsLocked(ls)
  BY <1>2 DEF JointsLocked
<1>5. RobotArrives
  BY <1>2 DEF RobotArrives
<1>. QED  BY <1>1, <1>3, <1>4, <1>5 DEF RobotInv

\* A link that has been locked with one index only: the places found for it.
Places(ls, l) == {k \in DOMAIN ls : ls[k] = l /\ Parents(ls, k) # {}}
LEMMA LockedIndex ==
    ASSUME NEW ls \in Seq(Link), NEW l \in Link
    PROVE  /\ Places(ls, l) = {} => LockJoints(ls)[l] = joint_parent[l]
           /\ Places(ls, l) # {} =>
                \E k \in Places(ls, l) : LockJoints(ls)[l] = ParentAt(ls, k)
<1> DEFINE found == Places(ls, l)
<1>1. LockJoints(ls)[l] = IF found = {} THEN joint_parent[l] ELSE Min(Parents(ls, Max(found))) - 1
  BY DEF LockJoints, Places
<1>2. found \subseteq 1 .. Len(ls) /\ Len(ls) \in Nat
  BY DEF Places
<1> HIDE DEF found
<1>3. found # {} => Max(found) \in found
  BY <1>2, SmallestAndLargest
<1>4. \A k \in found : ParentAt(ls, k) = Min(Parents(ls, k)) - 1
  BY DEF ParentAt, found, Places
<1>. QED  BY <1>1, <1>3, <1>4 DEF found

LEMMA FinitePlaces ==
    ASSUME NEW ls \in Seq(Link), NEW l \in Link, NEW R, IsFiniteSet(R)
    PROVE  IsFiniteSet(R \cup {ParentAt(ls, k) : k \in {j \in DOMAIN ls : ls[j] = l}})
<1> DEFINE K == {j \in DOMAIN ls : ls[j] = l}
           f == [k \in K |-> ParentAt(ls, k)]
           P == {ParentAt(ls, k) : k \in K}
<1>1. K \in SUBSET (1 .. Len(ls)) /\ Len(ls) \in Nat
  OBVIOUS
<1>2. IsFiniteSet(1 .. Len(ls))
  BY <1>1, FS_Interval
<1>3. IsFiniteSet(K)
  <2> HIDE DEF K
  <2>. QED  BY <1>1, <1>2, FS_Subset
<1>4. f \in Surjection(K, P)
  BY DEF Surjection
<1>5. IsFiniteSet(P)
  <2> HIDE DEF f, K, P
  <2>. QED  BY <1>3, <1>4, FS_Surjection
<1> HIDE DEF P
<1>6. IsFiniteSet(R \cup P)
  BY <1>5, FS_Union
<1>. QED  BY <1>6 DEF P

LEMMA Single ==
    ASSUME NEW S, IsFiniteSet(S)
    PROVE  Cardinality(S) = 1 <=> \E x : S = {x}
BY FS_Singleton

\* Locking the joints of a model keeps what is known of the others.
LEMMA onSyncModelInv ==
    ASSUME RobotInv, NEW m \in Model, NEW ls \in Seq(Link), onSyncModel(m, ls),
           links_' \in [Model -> Seq(Link)]
    PROVE  RobotInv'
<1> USE DEF RobotInv
<1> DEFINE At(l) == {ParentAt(ls, k) : k \in {j \in DOMAIN ls : ls[j] = l}}
<1>1. /\ joint_parent' = LockJoints(ls) /\ UNCHANGED model
      /\ robot_model_store' = [robot_model_store EXCEPT ![m] = {ls}]
      /\ links_modified' = [links_modified EXCEPT ![m] = FALSE]
      /\ \A l \in Link : resolved'[l] = resolved[l] \cup At(l)
      /\ DOMAIN resolved' = Link
  BY DEF onSyncModel
<1>2. RobotTypeOK'
  <2>1. joint_parent' \in [Link -> Int]
    <3>1. \A l \in Link : LockJoints(ls)[l] \in Int
      <4> SUFFICES ASSUME NEW l \in Link PROVE LockJoints(ls)[l] \in Int
        OBVIOUS
      <4>1. \A k \in Places(ls, l) : ParentAt(ls, k) \in Int
        BY ParentsTypes DEF Places
      <4>. QED  BY <4>1, LockedIndex DEF RobotTypeOK
    <3> DEFINE f == LockJoints(ls)
    <3>2. f = [l \in Link |-> f[l]] /\ joint_parent' = f
      BY <1>1 DEF LockJoints
    <3>3. \A l \in Link : f[l] \in Int
      BY <3>1
    <3> HIDE DEF f
    <3>. QED  BY <3>2, <3>3
  <2>2. \A l \in Link : IsFiniteSet(resolved'[l])
    <3> SUFFICES ASSUME NEW l \in Link PROVE IsFiniteSet(resolved'[l])
      OBVIOUS
    <3>1. IsFiniteSet(resolved[l] \cup At(l))
      BY FinitePlaces DEF RobotTypeOK
    <3> HIDE DEF At
    <3>. QED  BY <1>1, <3>1
  <2>3. DOMAIN robot_model_store' = Model /\ \A n \in Model : robot_model_store'[n] \subseteq Seq(Link)
    BY <1>1 DEF RobotTypeOK
  <2>. QED  BY <1>1, <2>1, <2>2, <2>3 DEF RobotTypeOK
<1>3. IndexFound'
  <2> SUFFICES ASSUME NEW l \in Link, NEW x \in resolved'[l] \cup {-1}, resolved'[l] \subseteq {x}
               PROVE  joint_parent'[l] = x
    BY DEF IndexFound
  <2>1. At(l) \subseteq {x} /\ resolved[l] \subseteq {x}
    BY <1>1
  <2>2. CASE Places(ls, l) # {}
    <3>1. PICK k \in Places(ls, l) : joint_parent'[l] = ParentAt(ls, k)
      BY <1>1, <2>2, LockedIndex
    <3>. QED  BY <2>1, <3>1 DEF Places
  <2>3. CASE Places(ls, l) = {}
    <3>1. joint_parent'[l] = joint_parent[l]
      BY <1>1, <2>3, LockedIndex
    <3>2. \A k \in {j \in DOMAIN ls : ls[j] = l} : ParentAt(ls, k) = -1
      BY <2>3 DEF ParentAt, Places
    <3>3. At(l) \subseteq {-1}
      BY <3>2
    <3>4. x \in resolved[l] \cup {-1}
      BY <1>1, <3>3
    <3>. QED  BY <2>1, <3>1, <3>4 DEF IndexFound
  <2>. QED  BY <2>2, <2>3
<1>4. \A l \in Link : resolved[l] \subseteq resolved'[l]
  BY <1>1
<1>5. \A q \in Seq(Link) : JointsLocked(q) => JointsLocked(q)'
  BY <1>4, SeqElement DEF JointsLocked
<1>6. JointsLocked(ls)'
  <2>1. \A k \in DOMAIN ls : ParentAt(ls, k) \in At(ls[k])
    OBVIOUS
  <2>. QED  BY <1>1, <2>1, SeqElement DEF JointsLocked
<1>7. \A n \in Model : \A q \in robot_model_store'[n] : JointsLocked(q)'
  BY <1>1, <1>5, <1>6 DEF RobotTypeOK
<1>8. JointsLocked(model.links)'
  BY <1>1, <1>5 DEF RobotTypeOK
<1>9. RobotArrives'
  <2> DEFINE q == model.links
  <2> SUFFICES ASSUME NEW k \in DOMAIN q, Cardinality(resolved'[q[k]]) = 1
               PROVE  Cardinality(resolved[q[k]]) = 1
    BY <1>1 DEF RobotArrives
  <2>1. q[k] \in Link
    BY SeqElement DEF RobotTypeOK
  <2>2. ParentAt(q, k) \in resolved[q[k]]
    BY DEF JointsLocked
  <2> HIDE DEF q
  <2>3. PICK x : resolved'[q[k]] = {x}
    BY <1>2, <2>1, Single DEF RobotTypeOK
  <2>4. resolved[q[k]] = {x}
    BY <1>4, <2>1, <2>2, <2>3
  <2>. QED  BY <2>1, <2>4, Single DEF RobotTypeOK
<1>. QED  BY <1>2, <1>3, <1>7, <1>8, <1>9

LEMMA syncDataInv == ASSUME RobotInv, syncData PROVE RobotInv'
<1> USE DEF RobotInv
<1>1. PICK m \in Model :
         /\ robot_model_store[m] # {}
         /\ model' = [links |-> ModelMessage(m).links, data |-> Received(ModelMessage(m).data)]
  BY DEF syncData
<1>2. /\ robot_model_store' = [n \in Model |-> {}]
      /\ UNCHANGED <<joint_parent, links_, links_modified, resolved>>
  BY DEF syncData
<1>3. PICK ls : ls \in robot_model_store[m] /\ ls = CHOOSE x \in robot_model_store[m] : TRUE
  BY <1>1
<1>4. ls \in Seq(Link) /\ JointsLocked(ls)
  BY <1>3 DEF RobotTypeOK
<1> DEFINE sent == [k \in DOMAIN ls |-> Packed(ls[k])]
<1>5. ModelMessage(m).links = ls /\ ModelMessage(m).data = sent
  BY <1>3 DEF ModelMessage
<1>6. \A k \in DOMAIN ls : sent[k].name = LinkName[ls[k]] /\ sent[k].parent = joint_parent[ls[k]]
  BY DEF Packed
<1>7. DOMAIN sent = DOMAIN ls
  OBVIOUS
<1> HIDE DEF sent
<1> DEFINE data == Received(sent)
<1>8. model'.links = ls /\ model'.data = data
  BY <1>1, <1>5
<1>9. DOMAIN data = DOMAIN ls
  BY <1>7 DEF Received
<1>10. RobotTypeOK'
  BY <1>2, <1>4, <1>8, <1>9 DEF RobotTypeOK
<1>11. IndexFound' /\ JointsLocked(model.links)' /\ \A n \in Model : \A q \in robot_model_store'[n] : JointsLocked(q)'
  BY <1>2, <1>4, <1>8 DEF IndexFound, JointsLocked
<1>12. RobotArrives'
  <2>1. \A k \in DOMAIN ls : data[k].name = LinkName[ls[k]]
    BY <1>6, <1>7 DEF Received
  <2>2. [k \in DOMAIN data |-> data[k].name] = [k \in DOMAIN ls |-> LinkName[ls[k]]]
    <3> HIDE DEF data
    <3>. QED  BY <1>9, <2>1
  <2>3. ASSUME NEW k \in DOMAIN ls, Cardinality(resolved[ls[k]]) = 1
        PROVE  /\ data[k].parent = ParentAt(ls, k) + 1
               /\ data[k].parent # 0 => data[k].parent_name = ParentName[ls[k]]
    <3>1. ls[k] \in Link /\ ParentAt(ls, k) \in resolved[ls[k]]
      BY <1>4, SeqElement DEF JointsLocked
    <3>2. resolved[ls[k]] = {ParentAt(ls, k)}
      BY <2>3, <3>1, Single DEF RobotTypeOK
    <3>3. sent[k].parent = ParentAt(ls, k)
      BY <1>6, <3>1, <3>2 DEF IndexFound
    <3> DEFINE known == 0 <= sent[k].parent /\ sent[k].parent < k - 1
    <3>4. /\ data[k].parent = IF known THEN sent[k].parent + 1 ELSE 0
          /\ data[k].parent_name = IF known THEN sent[sent[k].parent + 1].name ELSE NoJoint
      BY <1>7 DEF Received
    <3>5. /\ Parents(ls, k) \subseteq 1 .. (k - 1) /\ k \in Nat
          /\ \A j \in Parents(ls, k) : j \in DOMAIN ls /\ LinkName[ls[j]] = ParentName[ls[k]]
          /\ Parents(ls, k) # {} => Min(Parents(ls, k)) \in Parents(ls, k)
      BY <1>4, ParentsTypes
    <3>6. CASE Parents(ls, k) = {}
      <4>1. ParentAt(ls, k) = -1
        BY <3>6 DEF ParentAt
      <4>. QED  BY <3>3, <3>4, <4>1
    <3>7. CASE Parents(ls, k) # {}
      <4>1. PICK j \in Parents(ls, k) : ParentAt(ls, k) = j - 1
        BY <3>5, <3>7 DEF ParentAt
      <4>2. j \in 1 .. (k - 1) /\ j \in DOMAIN ls /\ LinkName[ls[j]] = ParentName[ls[k]]
        BY <3>5
      <4>3. sent[k].parent + 1 = j /\ known
        BY <3>3, <3>5, <4>1, <4>2
      <4>. QED  BY <1>6, <3>3, <3>4, <4>1, <4>2, <4>3
    <3>. QED  BY <3>6, <3>7
  <2>. QED  BY <1>2, <1>8, <2>2, <2>3 DEF RobotArrives
<1>. QED  BY <1>10, <1>11, <1>12

LEMMA RobotNextInv == RobotInv /\ [RobotNext]_robotVars => RobotInv'
<1> SUFFICES ASSUME RobotInv, [RobotNext]_robotVars PROVE RobotInv'
  OBVIOUS
<1>1. ASSUME UNCHANGED <<joint_parent, robot_model_store, model, resolved>>,
             links_' \in [Model -> Seq(Link)], links_modified' \in [Model -> BOOLEAN]
      PROVE  RobotInv'
  BY ZenonT(30), <1>1 DEF RobotInv, RobotTypeOK, IndexFound, JointsLocked, RobotArrives
<1>2. CASE UNCHANGED robotVars
  BY <1>1, <1>2 DEF robotVars, RobotInv, RobotTypeOK
<1>3. ASSUME NEW m \in Model, initModel(m) PROVE RobotInv'
  <2>1. <<>> \in Seq(Link)
    OBVIOUS
  <2>. QED  BY <1>1, <1>3, <2>1 DEF initModel, RobotInv, RobotTypeOK
<1>4. ASSUME NEW m \in Model, NEW l \in Link, addLink(m, l) PROVE RobotInv'
  <2>1. Append(links_[m], l) \in Seq(Link)
    BY DEF RobotInv, RobotTypeOK
  <2>. QED  BY <1>1, <1>4, <2>1 DEF addLink, RobotInv, RobotTypeOK
<1>5. ASSUME NEW m \in Model, syncModel(m) PROVE RobotInv'
  <2>1. links_[m] \in Seq(Link) /\ onSyncModel(m, links_[m]) /\ links_' \in [Model -> Seq(Link)]
    BY <1>5 DEF syncModel, RobotInv, RobotTypeOK
  <2>. QED  BY <2>1, onSyncModelInv
<1>6. ASSUME NEW m \in Model, NEW ls \in Arrangement, setModel(m, ls) PROVE RobotInv'
  <2>1. ls \in Seq(Link) /\ onSyncModel(m, ls) /\ links_' \in [Model -> Seq(Link)]
    BY <1>6, RobotAssumption DEF setModel, RobotInv, RobotTypeOK
  <2>. QED  BY <2>1, onSyncModelInv
<1>. QED  BY <1>2, <1>3, <1>4, <1>5, <1>6, syncDataInv DEF RobotNext

\* What is known of the links of the models agrees in every reachable state (RobotInv).  Of
\* a link that is shared by models which have its parent at different places nothing is said:
\* the index of the first stays (robot_link.cc:83), and the formula excludes it (resolved).
THEOREM RobotsConsistent == RobotSpec => []RobotInv
BY RobotInitInv, RobotNextInv, PTL DEF RobotSpec

\* A model of whose links none has been resolved at another place, in another model, arrives
\* with its links, hung where they were put (RobotArrives).
THEOREM RobotsArrive == RobotSpec => []RobotArrives
<1>1. RobotInv => RobotArrives
  BY DEF RobotInv
<1>. QED  BY <1>1, RobotsConsistent, PTL

(***************************************************************************)
(* Strings                                                                   *)
(***************************************************************************)

LEMMA Characters == "?" \in Chars /\ "." \in Chars
BY DEF Chars

LEMMA MappedText ==
    ASSUME NEW t \in Seq(Chars), NEW f, DOMAIN f = DOMAIN t, f = [i \in DOMAIN t |-> f[i]],
           \A i \in DOMAIN t : f[i] \in Chars
    PROVE  f \in Seq(Chars) /\ Len(f) = Len(t)
OBVIOUS

\* What a text reads like in an encoding.
LEMMA WrittenText ==
    ASSUME NEW t \in Seq(Chars), NEW enc
    PROVE  /\ Written(enc, t) \in Seq(Chars) /\ Len(Written(enc, t)) = Len(t)
           /\ enc # "s" => Written(enc, t) = t
           /\ \A i \in DOMAIN t : Written("s", t)[i] = IF t[i] = Wide THEN "?" ELSE t[i]
           /\ Written(enc, t) = <<>> <=> t = <<>>
<1> DEFINE s == Written("s", t)
<1>1. /\ DOMAIN s = DOMAIN t /\ s = [i \in DOMAIN t |-> s[i]]
      /\ \A i \in DOMAIN t : s[i] = IF t[i] = Wide THEN "?" ELSE t[i]
  BY DEF Written
<1>2. \A i \in DOMAIN t : s[i] \in Chars
  BY <1>1, Characters, SeqElement
<1>3. s \in Seq(Chars) /\ Len(s) = Len(t)
  <2> HIDE DEF s
  <2>. QED  BY <1>1, <1>2, MappedText
<1>4. enc # "s" => Written(enc, t) = t
  BY DEF Written
<1>5. \A q \in Seq(Chars) : q = <<>> <=> Len(q) = 0
  OBVIOUS
<1>. QED  BY <1>1, <1>3, <1>4, <1>5

Slots(d) == [at : {d, Static}, text : Seq(Chars)]

\* Filling one encoding of an object from one that is filled.
LEMMA Converted ==
    ASSUME NEW d, NEW text \in Seq(Chars), NEW o, IsObject(o, d, text),
           NEW from \in Encoding, NEW to \in Encoding, Filled(o, from), ~Filled(o, to),
           o[from].text = text
    PROVE  /\ IsObject(Convert(o, d, from, to), d, text)
           /\ \A enc \in Encoding \ {to} : Convert(o, d, from, to)[enc] = o[enc]
           /\ Convert(o, d, from, to)[to].text = Written(to, text)
           /\ Filled(Convert(o, d, from, to), to)
<1> DEFINE w == Written(to, text)
           n == Convert(o, d, from, to)
<1>1. w \in Seq(Chars) /\ text # <<>> /\ w # <<>>
  BY WrittenText DEF Filled
<1>2. n = [o EXCEPT ![to] = Slot(d, w)]
  BY DEF Convert
<1>3. Slot(d, w) \in Slots(d) /\ Slot(d, w).text = w
  BY <1>1 DEF Slot, Slots
<1>4. o \in [Encoding -> Slots(d)]
  BY DEF IsObject, Slots
<1> HIDE DEF w, n
<1>5. /\ n \in [Encoding -> Slots(d)]
      /\ \A enc \in Encoding \ {to} : n[enc] = o[enc]
      /\ n[to] = Slot(d, w)
  BY <1>2, <1>3, <1>4
<1>6. \A enc \in Encoding : Filled(n, enc) => n[enc].text = Written(enc, text)
  BY <1>3, <1>5 DEF IsObject, Filled, w
<1>7. \A enc \in Encoding : Filled(o, enc) => Filled(n, enc)
  BY <1>1, <1>3, <1>5 DEF Filled
<1>8. IsObject(n, d, text)
  BY <1>1, <1>5, <1>6, <1>7 DEF IsObject, Slots, Encoding
<1>. QED  BY <1>1, <1>3, <1>5, <1>8 DEF Filled, n, w

Spells(n, enc, text) == n[enc].text = Written(enc, text)

\* Filling an encoding of an object of a text: it spells the text, and what was filled
\* before stays.
LEMMA FillObject ==
    ASSUME NEW d, NEW text \in Seq(Chars), NEW o, IsObject(o, d, text), NEW enc \in Encoding
    PROVE  /\ IsObject(Fill(enc, o, d), d, text)
           /\ Spells(Fill(enc, o, d), enc, text)
           /\ text # <<>> => Filled(Fill(enc, o, d), enc)
           /\ \A e \in Encoding : Filled(o, e) \/ text = <<>> => Fill(enc, o, d)[e] = o[e]
<1>0. "u8" \in Encoding /\ "s" \in Encoding /\ "ws" \in Encoding
  BY DEF Encoding
<1>1. /\ Fill("u8", o, d) = FillU8(o, d) /\ Fill("ws", o, d) = FillW(o, d)
      /\ Fill("s", o, d) = FillS(o, d)
  BY DEF Fill
<1>2. CASE text = <<>>
  <2>1. \A e \in Encoding : ~Filled(o, e)
    BY <1>2, WrittenText DEF IsObject, Filled
  <2>2. Fill(enc, o, d) = o
    BY <1>0, <1>1, <2>1 DEF FillU8, FillW, FillS, Encoding
  <2>3. o[enc].text = <<>>
    BY <2>1 DEF Filled
  <2>4. Written(enc, text) = <<>>
    BY <1>2, WrittenText
  <2>. QED  BY <1>2, <2>2, <2>3, <2>4 DEF Spells
<1>3. CASE text # <<>>
  <2>1. /\ Filled(o, "u8") => o["u8"].text = text
        /\ Filled(o, "ws") => o["ws"].text = text
        /\ Filled(o, "s") => o["s"].text = Written("s", text)
    BY <1>0, WrittenText DEF IsObject
  <2>2. Filled(o, "u8") \/ Filled(o, "ws") \/ (Filled(o, "s") /\ o["s"].text = text)
    BY <1>3, <2>1 DEF IsObject, Lossless
  <2>3. \A e \in Encoding : Filled(o, e) => o[e].text = Written(e, text)
    BY DEF IsObject
  <2>4. CASE Filled(o, enc)
    <3>1. Fill(enc, o, d) = o
      BY <1>0, <1>1, <2>4 DEF FillU8, FillW, FillS, Encoding
    <3>. QED  BY <1>3, <2>3, <2>4, <3>1 DEF Spells
  <2>5. ASSUME NEW from \in Encoding, Filled(o, from), ~Filled(o, enc), o[from].text = text,
               Fill(enc, o, d) = Convert(o, d, from, enc)
        PROVE  /\ IsObject(Fill(enc, o, d), d, text)
               /\ Spells(Fill(enc, o, d), enc, text)
               /\ Filled(Fill(enc, o, d), enc)
               /\ \A e \in Encoding : Filled(o, e) => Fill(enc, o, d)[e] = o[e]
    <3> DEFINE c == Convert(o, d, from, enc)
    <3>1. /\ IsObject(c, d, text) /\ \A e \in Encoding \ {enc} : c[e] = o[e]
          /\ c[enc].text = Written(enc, text) /\ Filled(c, enc)
      BY <2>5, Converted
    <3> HIDE DEF c
    <3>2. Fill(enc, o, d) = c
      BY <2>5 DEF c
    <3>. QED  BY <2>5, <3>1, <3>2 DEF Spells
  <2>6. ASSUME NEW from \in Encoding, Filled(o, from), ~Filled(o, enc), o[from].text = text,
               ~Filled(o, "ws"), enc # "ws",
               Fill(enc, o, d) = Convert(Convert(o, d, from, "ws"), d, "ws", enc)
        PROVE  /\ IsObject(Fill(enc, o, d), d, text)
               /\ Spells(Fill(enc, o, d), enc, text)
               /\ Filled(Fill(enc, o, d), enc)
               /\ \A e \in Encoding : Filled(o, e) => Fill(enc, o, d)[e] = o[e]
    <3> DEFINE p == Convert(o, d, from, "ws")
    <3>1. /\ IsObject(p, d, text) /\ \A e \in Encoding \ {"ws"} : p[e] = o[e]
          /\ p["ws"].text = Written("ws", text) /\ Filled(p, "ws")
      BY <1>0, <2>6, Converted
    <3>2. p["ws"].text = text
      BY <3>1, WrittenText
    <3>3. ~Filled(p, enc)
      BY <2>6, <3>1 DEF Filled
    <3> HIDE DEF p
    <3>4. /\ IsObject(Convert(p, d, "ws", enc), d, text)
          /\ \A e \in Encoding \ {enc} : Convert(p, d, "ws", enc)[e] = p[e]
          /\ Convert(p, d, "ws", enc)[enc].text = Written(enc, text)
          /\ Filled(Convert(p, d, "ws", enc), enc)
      BY <1>0, <3>1, <3>2, <3>3, Converted
    <3>5. Fill(enc, o, d) = Convert(p, d, "ws", enc)
      BY <2>6 DEF p
    <3>. QED  BY <2>6, <3>1, <3>4, <3>5 DEF Spells
  <2>7. CASE enc = "u8" /\ ~Filled(o, enc)
    BY <1>0, <1>1, <1>3, <2>1, <2>2, <2>5, <2>6, <2>7 DEF FillU8
  <2>8. CASE enc = "ws" /\ ~Filled(o, enc)
    BY <1>0, <1>1, <1>3, <2>1, <2>2, <2>5, <2>8 DEF FillW
  <2>9. CASE enc = "s" /\ ~Filled(o, enc)
    BY <1>0, <1>1, <1>3, <2>1, <2>2, <2>5, <2>6, <2>9 DEF FillS
  <2>. QED  BY <2>4, <2>7, <2>8, <2>9 DEF Encoding
<1>. QED  BY <1>2, <1>3


LEMMA NormalText ==
    ASSUME NEW t \in Seq(Chars)
    PROVE  /\ Leading(t) \in 0 .. Len(t) /\ Normal(t) \in Seq(Chars)
           /\ Len(Normal(t)) = Len(t) - Leading(t)
           /\ \A i \in 1 .. Len(t) - Leading(t) :
                Normal(t)[i] = IF t[i + Leading(t)] = Alt THEN "." ELSE t[i + Leading(t)]
<1> DEFINE S == {i \in DOMAIN t : \A j \in 1 .. i : t[j] = Alt}
           n == Leading(t)
           rest == SubSeq(t, n + 1, Len(t))
<1>1. n \in 0 .. Len(t)
  <2>1. Len(t) \in Nat /\ S \in SUBSET (1 .. Len(t))
    OBVIOUS
  <2>2. IsFiniteSet(1 .. Len(t)) /\ Cardinality(1 .. Len(t)) = Len(t)
    <3>1. \A k \in Nat : IsFiniteSet(1 .. k) /\ Cardinality(1 .. k) = IF 1 > k THEN 0 ELSE k - 1 + 1
      BY FS_Interval
    <3>. QED  BY <2>1, <3>1
  <2>3. n = Cardinality(S)
    BY DEF Leading
  <2> HIDE DEF S, n
  <2>4. IsFiniteSet(S) /\ Cardinality(S) <= Len(t)
    BY <2>1, <2>2, FS_Subset
  <2>. QED  BY <2>1, <2>3, <2>4, FS_CardinalityType
<1> HIDE DEF n
<1>2. /\ rest \in Seq(Chars) /\ Len(rest) = Len(t) - n
      /\ \A i \in 1 .. Len(t) - n : rest[i] = t[i + n]
  BY <1>1
<1>3. Normal(t) = [i \in DOMAIN rest |-> IF rest[i] = Alt THEN "." ELSE rest[i]]
  BY DEF Normal, n
<1> HIDE DEF rest
<1> DEFINE f == Normal(t)
<1>4. DOMAIN f = DOMAIN rest /\ f = [i \in DOMAIN rest |-> f[i]]
      /\ \A i \in DOMAIN rest : f[i] = IF rest[i] = Alt THEN "." ELSE rest[i]
  BY <1>3
<1>5. \A i \in DOMAIN rest : f[i] \in Chars
  BY <1>2, <1>4, Characters, SeqElement
<1> HIDE DEF f
<1>6. f \in Seq(Chars) /\ Len(f) = Len(rest)
  BY <1>2, <1>4, <1>5, MappedText
<1>7. DOMAIN rest = 1 .. Len(t) - n
  BY <1>2
<1>. QED  BY <1>1, <1>2, <1>4, <1>6, <1>7 DEF f, n

LEMMA SameText ==
    ASSUME NEW s \in Seq(Chars), NEW t \in Seq(Chars), Len(s) = Len(t),
           \A i \in 1 .. Len(t) : s[i] = t[i]
    PROVE  s = t
OBVIOUS

\* A separator is found and replaced at the same places in every encoding.
LEMMA NormalWritten ==
    ASSUME NEW t \in Seq(Chars), NEW enc
    PROVE  /\ Normal(Written(enc, t)) = Written(enc, Normal(t))
           /\ HasAlt(Written(enc, t)) <=> HasAlt(t)
<1>1. CASE enc # "s"
  BY <1>1, WrittenText, NormalText
<1>2. CASE enc = "s"
  <2> DEFINE w == Written("s", t)
             n == Leading(t)
             u == Normal(t)
  <2>1. /\ w \in Seq(Chars) /\ Len(w) = Len(t) /\ Len(t) \in Nat
        /\ \A i \in 1 .. Len(t) : w[i] = IF t[i] = Wide THEN "?" ELSE t[i]
    BY WrittenText
  <2> HIDE DEF w
  <2>2. DOMAIN w = DOMAIN t /\ DOMAIN t = 1 .. Len(t)
    BY <2>1
  <2>3. \A i \in 1 .. Len(t) : w[i] = Alt <=> t[i] = Alt
    BY <2>1 DEF Alt, Wide
  <2>4. HasAlt(w) <=> HasAlt(t)
    BY <2>2, <2>3 DEF HasAlt
  <2>5. Leading(w) = n
    <3>1. {i \in DOMAIN w : \A j \in 1 .. i : w[j] = Alt} = {i \in DOMAIN t : \A j \in 1 .. i : t[j] = Alt}
      BY <2>1, <2>2, <2>3
    <3>. QED  BY <3>1 DEF Leading
  <2>6. /\ n \in 0 .. Len(t) /\ u \in Seq(Chars) /\ Len(u) = Len(t) - n
        /\ \A i \in 1 .. Len(t) - n : u[i] = IF t[i + n] = Alt THEN "." ELSE t[i + n]
    BY NormalText
  <2>7. /\ Normal(w) \in Seq(Chars) /\ Len(Normal(w)) = Len(t) - n
        /\ \A i \in 1 .. Len(t) - n : Normal(w)[i] = IF w[i + n] = Alt THEN "." ELSE w[i + n]
    <3> DEFINE m == Leading(w)
    <3>1. /\ Normal(w) \in Seq(Chars) /\ Len(Normal(w)) = Len(w) - m
          /\ \A i \in 1 .. Len(w) - m : Normal(w)[i] = IF w[i + m] = Alt THEN "." ELSE w[i + m]
      BY <2>1, NormalText
    <3>2. m = n
      BY <2>5
    <3> HIDE DEF m, n
    <3>. QED  BY <2>1, <3>1, <3>2
  <2> HIDE DEF n, u
  <2>8. /\ Written("s", u) \in Seq(Chars) /\ Len(Written("s", u)) = Len(u)
        /\ \A i \in 1 .. Len(u) : Written("s", u)[i] = IF u[i] = Wide THEN "?" ELSE u[i]
    <3>1. DOMAIN u = 1 .. Len(u)
      BY <2>6
    <3>. QED  BY <2>6, <3>1, WrittenText
  <2>9. \A i \in 1 .. Len(t) - n : i + n \in 1 .. Len(t)
    BY <2>1, <2>6
  <2>10. \A i \in 1 .. Len(t) - n : Normal(w)[i] = Written("s", u)[i]
    BY <2>1, <2>6, <2>7, <2>8, <2>9 DEF Alt, Wide
  <2>11. Normal(w) = Written("s", u)
    BY <2>6, <2>7, <2>8, <2>10, SameText
  <2>. QED  BY <1>2, <2>4, <2>11 DEF u, w
<1>. QED  BY <1>1, <1>2

KeepsText(o, n, d) ==
    \A text \in Seq(Chars) : IsObject(o, d, text) =>
        /\ IsObject(n, d, text)
        /\ \A enc \in Encoding : Filled(o, enc) \/ text = <<>> => n[enc] = o[enc]

LEMMA FillKeeps ==
    ASSUME NEW o, NEW d, NEW enc \in Encoding
    PROVE  KeepsText(o, Fill(enc, o, d), d) /\ KeepsText(o, o, d)
BY FillObject DEF KeepsText

LEMMA ObjectThere ==
    ASSUME NEW d \in StrData, NEW text \in Seq(Chars), NEW o, IsObject(o, d, text)
    PROVE  o # NoData /\ \E enc \in Encoding : o[enc].text = text
<1>1. o \in [Encoding -> Slots(d)]
  BY DEF IsObject, Slots
<1>2. Slots(d) \subseteq [at : {0} \cup StrData, text : Seq(Chars)]
  BY DEF Slots, Static
<1>3. o \in [{"u8", "s", "ws"} -> [at : {0} \cup StrData, text : Seq(Chars)]]
  BY <1>1, <1>2 DEF Encoding
<1>4. o # NoData
  BY <1>3, StringAssumption
<1>5. CASE text = <<>>
  <2>1. "u8" \in Encoding /\ ~Filled(o, "u8")
    BY <1>5, WrittenText DEF IsObject, Encoding, Filled
  <2>. QED  BY <1>4, <1>5, <2>1 DEF Filled
<1>6. CASE text # <<>>
  <2>1. /\ Filled(o, "u8") => o["u8"].text = Written("u8", text)
        /\ Filled(o, "ws") => o["ws"].text = Written("ws", text)
        /\ Filled(o, "s") => o["s"].text = Written("s", text)
    BY DEF IsObject, Encoding
  <2>2. Written("u8", text) = text /\ Written("ws", text) = text
    BY WrittenText
  <2>3. Filled(o, "u8") \/ Filled(o, "ws") \/ (Filled(o, "s") /\ Written("s", text) = text)
    BY <1>6 DEF IsObject, Lossless
  <2>. QED  BY <1>4, <2>1, <2>2, <2>3 DEF Encoding
<1>. QED  BY <1>5, <1>6

LEMMA FreeAddress ==
    ASSUME HasFree
    PROVE  Free \in StrData /\ objects[Free] = NoData
<1> DEFINE S == {d \in StrData : objects[d] = NoData}
<1>1. S \in SUBSET Nat /\ S # {}
  BY StringAssumption DEF StrData, HasFree
<1>2. PICK d \in S : \A y \in S : d <= y
  BY <1>1, SmallestOf
<1>3. \A e \in 1 .. d - 1 : objects[e] # NoData
  BY <1>1, <1>2, StringAssumption DEF StrData
<1>4. \E x \in StrData : objects[x] = NoData /\ \A e \in 1 .. x - 1 : objects[e] # NoData
  BY <1>2, <1>3
<1>. QED  BY <1>4 DEF Free

\* What a step changes: a string or a cache refers to what another one did or to an object
\* of its text, a view sees an encoding that is filled, and no object that is there
\* changes its text.
RefersTo(changed, d, text) ==
    d \in StrData /\ text \in Seq(Chars) /\ IsObject(changed[d], d, text)
LEMMA BecomeInv ==
    ASSUME StringsInv, NEW changed, Become(changed), UNCHANGED <<windows, using_utf8>>,
           \A d \in StrData : objects[d] # NoData => KeepsText(objects[d], changed[d], d),
           DOMAIN str_data' = Str, str_data' = [h \in Str |-> str_data'[h]],
           spelt' = [h \in Str |-> spelt'[h]],
           \A h \in Str : \/ \E k \in Str : str_data'[h] = str_data[k] /\ spelt'[h] = spelt[k]
                          \/ RefersTo(changed, str_data'[h], spelt'[h]),
           DOMAIN views' = View,
           \A v \in View : views'[v] \in {views[v], NoData} \/ IsView(changed, views'[v]),
           literal_caches' \in [Encoding -> [Literal -> StrData \cup {NoData}]],
           \A enc \in Encoding, l \in Literal :
              \/ literal_caches'[enc][l] = literal_caches[enc][l]
              \/ RefersTo(changed, literal_caches'[enc][l], l)
    PROVE  StringsInv'
<1> USE DEF StringsInv
<1>1. \A d \in StrData, text \in Seq(Chars) :
         IsObject(objects[d], d, text) => IsObject(changed[d], d, text)
  BY ObjectThere DEF KeepsText
<1>2. \A d \in StrData : Live(d)' => objects'[d] = changed[d]
  BY DEF Become
<1>3. \A h \in Str : /\ str_data'[h] \in StrData \cup {NoData} /\ spelt'[h] \in Seq(Chars)
                     /\ IF str_data'[h] = NoData THEN spelt'[h] = <<>>
                        ELSE IsObject(changed[str_data'[h]], str_data'[h], spelt'[h])
  <2> SUFFICES ASSUME NEW h \in Str
               PROVE  /\ str_data'[h] \in StrData \cup {NoData} /\ spelt'[h] \in Seq(Chars)
                      /\ IF str_data'[h] = NoData THEN spelt'[h] = <<>>
                         ELSE IsObject(changed[str_data'[h]], str_data'[h], spelt'[h])
    OBVIOUS
  <2>1. CASE \E k \in Str : str_data'[h] = str_data[k] /\ spelt'[h] = spelt[k]
    BY <1>1, <2>1 DEF StringsTypeOK
  <2>2. CASE RefersTo(changed, str_data'[h], spelt'[h])
    BY <2>2, StringAssumption DEF RefersTo
  <2>. QED  BY <2>1, <2>2
<1>4. \A h \in Str : IF str_data'[h] = NoData THEN spelt'[h] = <<>>
                     ELSE IsObject(objects'[str_data'[h]], str_data'[h], spelt'[h])
  BY <1>2, <1>3 DEF Live
<1>5. \A enc \in Encoding, l \in Literal :
        literal_caches'[enc][l] # NoData =>
            IsObject(objects'[literal_caches'[enc][l]], literal_caches'[enc][l], l)
  <2> SUFFICES ASSUME NEW enc \in Encoding, NEW l \in Literal, literal_caches'[enc][l] # NoData
               PROVE  IsObject(objects'[literal_caches'[enc][l]], literal_caches'[enc][l], l)
    OBVIOUS
  <2>1. literal_caches'[enc][l] \in StrData /\ l \in Seq(Chars)
    BY StringAssumption
  <2>2. IsObject(changed[literal_caches'[enc][l]], literal_caches'[enc][l], l)
    BY <1>1, <2>1 DEF RefersTo
  <2>3. PICK d : d = literal_caches'[enc][l]
    OBVIOUS
  <2>4. Live(d)'
    BY <2>3 DEF Live
  <2>. QED  BY <1>2, <2>1, <2>2, <2>3, <2>4
<1>6. \A v \in View : views'[v] # NoData => IsView(objects', views'[v])
  <2> SUFFICES ASSUME NEW v \in View, views'[v] # NoData PROVE IsView(objects', views'[v])
    OBVIOUS
  <2>1. ASSUME IsView(objects, views'[v]) PROVE IsView(changed, views'[v])
    <3> DEFINE d == views'[v].data
               e == views'[v].enc
    <3>1. PICK text \in {objects[d][enc].text : enc \in Encoding} :
             IsObject(objects[d], d, text) /\ (Filled(objects[d], e) \/ text = <<>>)
      BY <2>1 DEF IsView
    <3>2. d \in StrData /\ e \in Encoding /\ objects[d][e] = views'[v].slot
      BY <2>1 DEF IsView
    <3> HIDE DEF d, e
    <3>3. text \in Seq(Chars)
      BY <3>1 DEF IsObject
    <3>4. objects[d] # NoData
      BY <3>1, <3>2, <3>3, ObjectThere
    <3>5. IsObject(changed[d], d, text) /\ changed[d][e] = objects[d][e]
      BY <3>1, <3>2, <3>3, <3>4 DEF KeepsText
    <3>6. text \in {changed[d][enc].text : enc \in Encoding}
      BY <3>2, <3>3, <3>5, ObjectThere
    <3>7. Filled(changed[d], e) \/ text = <<>>
      BY <3>1, <3>5 DEF Filled
    <3>. QED  BY <3>2, <3>5, <3>6, <3>7 DEF IsView, d, e
  <2>2. IsView(changed, views'[v])
    BY <2>1
  <2>3. PICK d : d = views'[v].data
    OBVIOUS
  <2>4. d \in StrData /\ Live(d)'
    BY <2>2, <2>3 DEF IsView, Live
  <2>5. objects'[views'[v].data] = changed[views'[v].data]
    BY <1>2, <2>3, <2>4
  <2>. QED  BY <2>2, <2>5 DEF IsView
<1>7. StringsTypeOK'
  <2>1. str_data' \in [Str -> StrData \cup {NoData}] /\ spelt' \in [Str -> Seq(Chars)]
    BY <1>3
  <2>2. DOMAIN objects' = StrData
    BY DEF Become
  <2>. QED  BY <2>1, <2>2 DEF StringsTypeOK
<1>8. (\A enc \in Encoding, l \in Literal :
          LET d == literal_caches[enc][l] IN d # NoData => IsObject(objects[d], d, l))'
  BY <1>5
<1>. QED  BY <1>4, <1>6, <1>7, <1>8

LEMMA GivenInv ==
    ASSUME StringsInv, NEW changed, Become(changed),
           UNCHANGED <<windows, using_utf8, views>>,
           \A e \in StrData : objects[e] # NoData => KeepsText(objects[e], changed[e], e),
           NEW h \in Str, NEW d, NEW text, Given(h, d, text),
           \/ \E k \in Str : d = str_data[k] /\ text = spelt[k]
           \/ RefersTo(changed, d, text),
           literal_caches' \in [Encoding -> [Literal -> StrData \cup {NoData}]],
           \A enc \in Encoding, l \in Literal :
              \/ literal_caches'[enc][l] = literal_caches[enc][l]
              \/ RefersTo(changed, literal_caches'[enc][l], l)
    PROVE  StringsInv'
<1>1. /\ DOMAIN str_data = Str /\ DOMAIN spelt = Str /\ DOMAIN views' = View
      /\ str_data = [k \in Str |-> str_data[k]] /\ spelt = [k \in Str |-> spelt[k]]
  BY DEF StringsInv, StringsTypeOK
<1>2. /\ str_data' = [k \in Str |-> IF k = h THEN d ELSE str_data[k]]
      /\ spelt' = [k \in Str |-> IF k = h THEN text ELSE spelt[k]]
  BY <1>1 DEF Given
<1>3. DOMAIN str_data' = Str /\ str_data' = [k \in Str |-> str_data'[k]]
      /\ spelt' = [k \in Str |-> spelt'[k]]
  BY <1>2
<1>4. \A k \in Str : \/ \E j \in Str : str_data'[k] = str_data[j] /\ spelt'[k] = spelt[j]
                     \/ RefersTo(changed, str_data'[k], spelt'[k])
  BY <1>2
<1>5. \A v \in View : views'[v] \in {views[v], NoData} \/ IsView(changed, views'[v])
  OBVIOUS
<1>. QED  BY <1>1, <1>3, <1>4, <1>5, BecomeInv

LEMMA NewText ==
    ASSUME NEW d, NEW enc \in Encoding, NEW at \in {d, Static}, NEW text \in Seq(Chars), Lossless(enc, text)
    PROVE  IsObject(NewObject(d, enc, at, text), d, text)
<1> DEFINE o == NewObject(d, enc, at, text)
<1>1. Slot(at, text) \in Slots(d) /\ Slot(at, text).text = text
  BY DEF Slot, Slots
<1>2. Slot(d, <<>>) \in Slots(d) /\ Slot(d, <<>>).text = <<>>
  <2>1. <<>> \in Seq(Chars)
    OBVIOUS
  <2>. QED  BY <2>1 DEF Slot, Slots
<1>3. /\ o \in [Encoding -> Slots(d)] /\ o[enc] = Slot(at, text)
      /\ \A e \in Encoding \ {enc} : o[e] = Slot(d, <<>>)
  BY <1>1, <1>2 DEF NewObject
<1> HIDE DEF o
<1>4. \A e \in Encoding : Filled(o, e) => e = enc
  BY <1>2, <1>3 DEF Filled
<1>5. text # <<>> => Filled(o, enc)
  BY <1>1, <1>3 DEF Filled
<1>6. IsObject(o, d, text)
  BY <1>1, <1>3, <1>4, <1>5 DEF IsObject, Slots, Encoding, Lossless
<1>. QED  BY <1>6 DEF o

\* A new object at a free address keeps the others.
LEMMA FreeKeeps ==
    ASSUME StringsInv, HasFree, NEW o
    PROVE  /\ \A d \in StrData :
                objects[d] # NoData => KeepsText(objects[d], [objects EXCEPT ![Free] = o][d], d)
           /\ [objects EXCEPT ![Free] = o][Free] = o
BY FreeAddress, FillKeeps DEF StringsInv, StringsTypeOK, Encoding

LEMMA encodeInv == ASSUME StringsInv, NEW h \in Str, encode(h) PROVE StringsInv'
<1>1. PICK text \in StrText, enc \in {Narrow, "u8", "ws"} :
         /\ HasFree /\ Lossless(enc, text) /\ Given(h, Free, text)
         /\ UNCHANGED <<windows, using_utf8, views, literal_caches>>
         /\ Become([objects EXCEPT ![Free] = NewObject(Free, enc, Free, text)])
  BY DEF encode
<1>2. enc \in Encoding /\ text \in Seq(Chars)
  BY StringAssumption DEF Narrow, Encoding
<1> DEFINE o == NewObject(Free, enc, Free, text)
           changed == [objects EXCEPT ![Free] = o]
<1>3. IsObject(o, Free, text)
  BY <1>1, <1>2, NewText
<1> HIDE DEF o
<1>4. RefersTo(changed, Free, text)
  BY <1>1, <1>2, <1>3, FreeAddress, FreeKeeps DEF RefersTo
<1>5. \A d \in StrData : objects[d] # NoData => KeepsText(objects[d], changed[d], d)
  BY <1>1, FreeKeeps
<1>6. Become(changed)
  BY <1>1 DEF o
<1>7. literal_caches' \in [Encoding -> [Literal -> StrData \cup {NoData}]]
  BY <1>1 DEF StringsInv, StringsTypeOK
<1> HIDE DEF changed
<1>. QED  BY <1>1, <1>4, <1>5, <1>6, <1>7, GivenInv

LEMMA encodeStaticInv == ASSUME StringsInv, NEW h \in Str, encodeStatic(h) PROVE StringsInv'
<1>1. PICK l \in Literal, enc \in {Narrow, "ws"} :
        /\ Lossless(enc, l)
        /\ UNCHANGED <<windows, using_utf8, views>>
        /\ IF literal_caches[enc][l] # NoData
           THEN /\ Given(h, literal_caches[enc][l], l)
                /\ UNCHANGED literal_caches
                /\ Become(objects)
           ELSE /\ HasFree
                /\ Given(h, Free, l)
                /\ literal_caches' = [literal_caches EXCEPT ![enc][l] = Free]
                /\ Become([objects EXCEPT ![Free] = NewObject(Free, enc, Static, l)])
  BY DEF encodeStatic
<1>2. enc \in Encoding /\ l \in Seq(Chars)
  BY StringAssumption DEF Narrow, Encoding
<1>3. CASE literal_caches[enc][l] # NoData
  <2>1. RefersTo(objects, literal_caches[enc][l], l)
    BY <1>2, <1>3 DEF RefersTo, StringsInv, StringsTypeOK
  <2>2. \A d \in StrData : KeepsText(objects[d], objects[d], d)
    BY <1>2, FillKeeps
  <2>3. literal_caches' \in [Encoding -> [Literal -> StrData \cup {NoData}]]
    BY <1>1, <1>3 DEF StringsInv, StringsTypeOK
  <2>. QED  BY <1>1, <1>3, <2>1, <2>2, <2>3, GivenInv
<1>4. CASE literal_caches[enc][l] = NoData
  <2> DEFINE o == NewObject(Free, enc, Static, l)
             changed == [objects EXCEPT ![Free] = o]
  <2>1. IsObject(o, Free, l)
    BY <1>1, <1>2, NewText
  <2> HIDE DEF o
  <2>2. RefersTo(changed, Free, l)
    BY <1>1, <1>2, <1>4, <2>1, FreeAddress, FreeKeeps DEF RefersTo
  <2>3. \A d \in StrData : objects[d] # NoData => KeepsText(objects[d], changed[d], d)
    BY <1>1, <1>4, FreeKeeps
  <2>4. Become(changed)
    BY <1>1, <1>4 DEF o
  <2>5. Free \in StrData
    BY <1>1, <1>4, FreeAddress
  <2>6. literal_caches' \in [Encoding -> [Literal -> StrData \cup {NoData}]]
    <3> DEFINE Row == [Literal -> StrData \cup {NoData}]
    <3>1. literal_caches \in [Encoding -> Row]
      BY DEF StringsInv, StringsTypeOK
    <3>2. [literal_caches[enc] EXCEPT ![l] = Free] \in Row
      BY <1>2, <2>5, <3>1
    <3> HIDE DEF Row
    <3>3. literal_caches' \in [Encoding -> Row]
      BY <1>1, <1>2, <1>4, <3>1, <3>2
    <3>. QED  BY <3>3 DEF Row
  <2>7. \A e \in Encoding, k \in Literal :
           literal_caches'[e][k] = IF e = enc /\ k = l THEN Free ELSE literal_caches[e][k]
    BY <1>1, <1>2, <1>4 DEF StringsInv, StringsTypeOK
  <2> HIDE DEF changed
  <2>. QED  BY <1>1, <1>4, <2>2, <2>3, <2>4, <2>6, <2>7, GivenInv
<1>. QED  BY <1>3, <1>4

\* Filling encodings of some of the objects keeps them all.
LEMMA FilledInv ==
    ASSUME StringsInv, NEW changed, Become(changed), NEW enc \in Encoding,
           UNCHANGED <<windows, using_utf8, str_data, literal_caches, spelt>>,
           \A d \in StrData : changed[d] \in {objects[d], Fill(enc, objects[d], d)},
           DOMAIN views' = View,
           \A v \in View : views'[v] \in {views[v], NoData} \/ IsView(changed, views'[v])
    PROVE  StringsInv'
<1>1. \A d \in StrData : KeepsText(objects[d], changed[d], d)
  BY FillKeeps
<1>2. /\ DOMAIN str_data' = Str /\ str_data' = [k \in Str |-> str_data'[k]]
      /\ spelt' = [k \in Str |-> spelt'[k]]
      /\ literal_caches' \in [Encoding -> [Literal -> StrData \cup {NoData}]]
  BY DEF StringsInv, StringsTypeOK
<1>. QED  BY <1>1, <1>2, BecomeInv

\* What string h refers to is an object of its text.
LEMMA StringObject ==
    ASSUME StringsInv, NEW h \in Str, str_data[h] # NoData
    PROVE  /\ str_data[h] \in StrData /\ spelt[h] \in Seq(Chars)
           /\ IsObject(objects[str_data[h]], str_data[h], spelt[h])
           /\ objects[str_data[h]] # NoData
BY ObjectThere DEF StringsInv, StringsTypeOK

LEMMA shareInv == ASSUME StringsInv, NEW h \in Str, NEW v \in View, share(h, v) PROVE StringsInv'
<1> DEFINE d == str_data[h]
           text == spelt[h]
<1>1. PICK enc \in {Narrow, "u8", "ws"} :
        /\ d # NoData
        /\ views' = [views EXCEPT ![v] = [data |-> d, enc |-> enc,
                                          slot |-> Fill(enc, objects[d], d)[enc]]]
        /\ UNCHANGED <<windows, using_utf8, str_data, literal_caches, spelt>>
        /\ Become([objects EXCEPT ![d] = Fill(enc, @, d)])
  BY DEF share
<1>2. enc \in Encoding
  BY DEF Narrow, Encoding
<1>3. d \in StrData /\ text \in Seq(Chars) /\ IsObject(objects[d], d, text) /\ objects[d] # NoData
  BY <1>1, StringObject
<1> HIDE DEF d, text
<1> DEFINE o == Fill(enc, objects[d], d)
           changed == [objects EXCEPT ![d] = o]
<1>4. IsObject(o, d, text) /\ (Filled(o, enc) \/ text = <<>>)
  BY <1>2, <1>3, FillObject
<1>5. text \in {o[e].text : e \in Encoding}
  BY <1>3, <1>4, ObjectThere
<1>6. Become(changed)
  BY <1>1
<1> HIDE DEF o
<1>7. changed[d] = o /\ \A e \in StrData \ {d} : changed[e] = objects[e]
  BY <1>3 DEF StringsInv, StringsTypeOK
<1>8. \A e \in StrData : changed[e] \in {objects[e], Fill(enc, objects[e], e)}
  BY <1>7 DEF o
<1> DEFINE view == [data |-> d, enc |-> enc, slot |-> o[enc]]
<1>9. view.data = d /\ view.enc = enc /\ view.slot = o[enc]
  OBVIOUS
<1>10. views' = [views EXCEPT ![v] = view]
  BY <1>1 DEF o
<1> HIDE DEF changed, view
<1>11. IsView(changed, view)
  BY <1>2, <1>3, <1>4, <1>5, <1>7, <1>9 DEF IsView
<1>12. DOMAIN views' = View /\ \A u \in View : views'[u] = IF u = v THEN view ELSE views[u]
  BY <1>10 DEF StringsInv, StringsTypeOK
<1>13. \A u \in View : views'[u] \in {views[u], NoData} \/ IsView(changed, views'[u])
  BY <1>11, <1>12
<1>. QED  BY <1>1, <1>2, <1>6, <1>8, <1>12, <1>13, FilledInv

LEMMA releaseInv == ASSUME StringsInv, NEW v \in View, release(v) PROVE StringsInv'
<1>1. "u8" \in Encoding
  BY DEF Encoding
<1>2. DOMAIN views' = View /\ \A u \in View : views'[u] \in {views[u], NoData}
  BY DEF release, StringsInv, StringsTypeOK
<1>. QED  BY <1>1, <1>2, FilledInv DEF release

LEMMA copyInv == ASSUME StringsInv, NEW h \in Str, NEW k \in Str, copy(h, k) PROVE StringsInv'
<1>1. "u8" \in Encoding
  BY DEF Encoding
<1>2. \A d \in StrData : KeepsText(objects[d], objects[d], d)
  BY <1>1, FillKeeps
<1>3. literal_caches' \in [Encoding -> [Literal -> StrData \cup {NoData}]]
  BY DEF copy, StringsInv, StringsTypeOK
<1>. QED  BY <1>2, <1>3, GivenInv DEF copy

LEMMA compareInv == ASSUME StringsInv, NEW h \in Str, NEW k \in Str, compare(h, k) PROVE StringsInv'
<1> DEFINE enc == ComparedIn(h, k)
           changed == [d \in StrData |-> IF d \in {str_data[h], str_data[k]}
                                         THEN Fill(enc, objects[d], d) ELSE objects[d]]
<1>1. enc \in Encoding
  BY DEF ComparedIn, Narrow, Encoding
<1>2. Become(changed) /\ UNCHANGED <<windows, using_utf8, str_data, views, literal_caches, spelt>>
  BY DEF compare
<1> HIDE DEF enc
<1>3. \A d \in StrData : changed[d] \in {objects[d], Fill(enc, objects[d], d)}
  OBVIOUS
<1> HIDE DEF changed
<1>4. DOMAIN views' = View /\ \A u \in View : views'[u] \in {views[u], NoData}
  BY <1>2 DEF StringsInv, StringsTypeOK
<1>. QED  BY <1>1, <1>2, <1>3, <1>4, FilledInv

LEMMA substrInv == ASSUME StringsInv, NEW h \in Str, substr(h) PROVE StringsInv'
<1> DEFINE d == str_data[h]
           text == spelt[h]
           filled == FillU8(objects[d], d)
           u8 == filled["u8"].text
           o == NewObject(Free, "u8", Free, Tail(u8))
           changed == [objects EXCEPT ![d] = filled, ![Free] = o]
<1>1. /\ d # NoData /\ HasFree /\ u8 # <<>>
      /\ Given(h, Free, Tail(text))
      /\ UNCHANGED <<windows, using_utf8, views, literal_caches>>
      /\ Become(changed)
  BY DEF substr
<1>2. d \in StrData /\ text \in Seq(Chars) /\ IsObject(objects[d], d, text) /\ objects[d] # NoData
  BY <1>1, StringObject
<1> HIDE DEF d, text
<1>3. "u8" \in Encoding
  BY DEF Encoding
<1>4. filled = Fill("u8", objects[d], d)
  BY DEF Fill
<1>5. u8 = text
  <2>1. Spells(Fill("u8", objects[d], d), "u8", text)
    BY <1>2, <1>3, FillObject
  <2>2. Written("u8", text) = text
    BY <1>2, WrittenText
  <2>. QED  BY <1>4, <2>1, <2>2 DEF Spells
<1>6. Tail(text) \in Seq(Chars)
  BY <1>1, <1>2, <1>5
<1>7. Lossless("u8", Tail(text))
  BY <1>6, WrittenText DEF Lossless
<1>8. IsObject(o, Free, Tail(text))
  BY <1>3, <1>5, <1>6, <1>7, NewText
<1>9. Free \in StrData /\ objects[Free] = NoData
  BY <1>1, FreeAddress
<1> HIDE DEF o, u8, filled
<1>10. DOMAIN objects = StrData
  BY DEF StringsInv, StringsTypeOK
<1>11. /\ changed[Free] = o /\ changed[d] = filled
       /\ \A e \in StrData \ {d, Free} : changed[e] = objects[e]
  BY <1>2, <1>9, <1>10
<1> HIDE DEF changed
<1>12. \A e \in StrData : objects[e] # NoData => KeepsText(objects[e], changed[e], e)
  BY <1>3, <1>4, <1>9, <1>11, FillKeeps
<1>13. RefersTo(changed, Free, Tail(text))
  BY <1>6, <1>8, <1>9, <1>11 DEF RefersTo
<1>14. literal_caches' \in [Encoding -> [Literal -> StrData \cup {NoData}]]
  BY <1>1 DEF StringsInv, StringsTypeOK
<1>. QED  BY <1>1, <1>12, <1>13, <1>14, GivenInv

\* An object whose encodings are normalized is one of the normal text.
LEMMA NormalObject ==
    ASSUME NEW d, NEW e, NEW text \in Seq(Chars), NEW o, IsObject(o, d, text),
           \E enc \in Encoding : HasAlt(o[enc].text), NEW n,
           n = [enc \in Encoding |->
                  IF HasAlt(CopyOf(o, d, e)[enc].text)
                  THEN Slot(e, Normal(CopyOf(o, d, e)[enc].text)) ELSE CopyOf(o, d, e)[enc]]
    PROVE  IsObject(n, e, Normal(text))
<1>1. \A enc \in Encoding : /\ CopyOf(o, d, e)[enc].text = o[enc].text
                            /\ CopyOf(o, d, e)[enc].at \in {e, Static}
                            /\ CopyOf(o, d, e)[enc] = Slot(CopyOf(o, d, e)[enc].at, o[enc].text)
                            /\ o[enc].text \in Seq(Chars)
  BY DEF CopyOf, Slot, IsObject
<1>2. \A enc \in Encoding : o[enc].text \in {<<>>, Written(enc, text)}
  BY DEF IsObject, Filled
<1>3. ~HasAlt(<<>>)
  BY DEF HasAlt
<1>4. HasAlt(text)
  BY <1>2, <1>3, NormalWritten
<1>5. \A enc \in Encoding : HasAlt(o[enc].text) <=> Filled(o, enc)
  BY <1>2, <1>3, <1>4, NormalWritten DEF Filled
<1>6. \A enc \in Encoding :
        \/ Filled(o, enc) /\ n[enc] = Slot(e, Normal(o[enc].text))
        \/ ~Filled(o, enc) /\ n[enc] = Slot(CopyOf(o, d, e)[enc].at, <<>>)
  BY <1>1, <1>5 DEF Filled
<1>7. \A enc \in Encoding : \/ Filled(o, enc) /\ n[enc] = Slot(e, Written(enc, Normal(text)))
                            \/ ~Filled(o, enc) /\ n[enc] = Slot(CopyOf(o, d, e)[enc].at, <<>>)
  <2>1. \A enc \in Encoding : Filled(o, enc) => o[enc].text = Written(enc, text)
    BY DEF IsObject
  <2>2. \A enc \in Encoding : Normal(Written(enc, text)) = Written(enc, Normal(text))
    BY NormalWritten
  <2>. QED  BY <1>6, <2>1, <2>2
<1> DEFINE N == Normal(text)
<1>8. N \in Seq(Chars)
  BY NormalText
<1> HIDE DEF N
<1>9. \A enc \in Encoding : Written(enc, N) \in Seq(Chars) /\ (Written(enc, N) = <<>> <=> N = <<>>)
  BY <1>8, WrittenText
<1>10. /\ \A at, x : Slot(at, x).text = x /\ Slot(at, x).at = at
       /\ \A at \in {e, Static}, x \in Seq(Chars) : Slot(at, x) \in Slots(e)
       /\ <<>> \in Seq(Chars)
  BY DEF Slot, Slots
<1>11. \A enc \in Encoding :
         /\ n[enc] \in Slots(e)
         /\ Filled(o, enc) => n[enc].text = Written(enc, N)
         /\ ~Filled(o, enc) => n[enc].text = <<>>
  <2> SUFFICES ASSUME NEW enc \in Encoding
               PROVE  /\ n[enc] \in Slots(e)
                      /\ Filled(o, enc) => n[enc].text = Written(enc, N)
                      /\ ~Filled(o, enc) => n[enc].text = <<>>
    OBVIOUS
  <2>1. CASE Filled(o, enc)
    <3>1. n[enc] = Slot(e, Written(enc, N))
      BY <1>7, <2>1 DEF N
    <3>. QED  BY <1>9, <1>10, <2>1, <3>1
  <2>2. CASE ~Filled(o, enc)
    <3> DEFINE at == CopyOf(o, d, e)[enc].at
    <3>1. n[enc] = Slot(at, <<>>)
      BY <1>7, <2>2
    <3>2. at \in {e, Static}
      BY <1>1
    <3> HIDE DEF at
    <3>3. Slot(at, <<>>).text = <<>>
      BY <1>10
    <3>4. Slot(at, <<>>) \in Slots(e)
      BY <1>10, <3>2
    <3>. QED  BY <2>2, <3>1, <3>3, <3>4
  <2>. QED  BY <2>1, <2>2
<1>12. n \in [Encoding -> Slots(e)]
  BY <1>11
<1>13. \A enc \in Encoding : Filled(n, enc) <=> Filled(o, enc) /\ N # <<>>
  BY <1>9, <1>11 DEF Filled
<1>14. Lossless("s", text) => Lossless("s", N)
  BY NormalWritten DEF Lossless, N
<1>15. text # <<>>
  BY <1>3, <1>4
<1>16. IsObject(n, e, N)
  <2>1. \A enc \in Encoding : Filled(n, enc) => n[enc].text = Written(enc, N)
    BY <1>11, <1>13
  <2>2. \/ N = <<>> \/ Filled(n, "u8") \/ Filled(n, "ws")
        \/ Filled(n, "s") /\ Lossless("s", N)
    BY <1>13, <1>14, <1>15 DEF IsObject, Encoding
  <2>. QED  BY <1>12, <2>1, <2>2 DEF IsObject, Slots
<1>. QED  BY <1>16 DEF N

LEMMA normalizeInv == ASSUME StringsInv, NEW h \in Str, normalizeSeparator(h) PROVE StringsInv'
<1> DEFINE d == str_data[h]
           text == spelt[h]
           copied == CopyOf(objects[d], d, Free)
           o == [enc \in Encoding |-> IF HasAlt(copied[enc].text)
                                      THEN Slot(Free, Normal(copied[enc].text)) ELSE copied[enc]]
           changed == [objects EXCEPT ![Free] = o]
<1>1. /\ d # NoData /\ HasFree
      /\ \E enc \in Encoding : HasAlt(objects[d][enc].text)
      /\ Given(h, Free, Normal(text))
      /\ UNCHANGED <<windows, using_utf8, views, literal_caches>>
      /\ Become(changed)
  BY DEF normalizeSeparator, IsReplaced
<1>2. d \in StrData /\ text \in Seq(Chars) /\ IsObject(objects[d], d, text)
  BY <1>1, StringObject
<1> HIDE DEF d, text
<1>3. IsObject(o, Free, Normal(text))
  BY <1>1, <1>2, NormalObject
<1>4. Normal(text) \in Seq(Chars)
  BY <1>2, NormalText
<1> HIDE DEF o
<1>5. RefersTo(changed, Free, Normal(text))
  BY <1>1, <1>3, <1>4, FreeAddress, FreeKeeps DEF RefersTo
<1>6. \A e \in StrData : objects[e] # NoData => KeepsText(objects[e], changed[e], e)
  BY <1>1, FreeKeeps
<1>7. literal_caches' \in [Encoding -> [Literal -> StrData \cup {NoData}]]
  BY <1>1 DEF StringsInv, StringsTypeOK
<1> HIDE DEF changed
<1>. QED  BY <1>1, <1>5, <1>6, <1>7, GivenInv

LEMMA StringsInitInv == StringsInit => StringsInv
<1> SUFFICES ASSUME StringsInit PROVE StringsInv
  OBVIOUS
<1> USE DEF StringsInit
<1>1. <<>> \in Seq(Chars)
  OBVIOUS
<1>2. [l \in Literal |-> NoData] \in [Literal -> StrData \cup {NoData}]
  OBVIOUS
<1>3. literal_caches \in [Encoding -> [Literal -> StrData \cup {NoData}]]
  BY <1>2
<1>. QED  BY <1>1, <1>3 DEF StringsInv, StringsTypeOK

LEMMA StringsNextInv == StringsInv /\ [StringsNext]_stringVars => StringsInv'
<1> SUFFICES ASSUME StringsInv, [StringsNext]_stringVars PROVE StringsInv'
  OBVIOUS
<1>1. ASSUME UNCHANGED <<windows, objects, str_data, views, literal_caches, spelt>>,
             using_utf8' \in BOOLEAN
      PROVE  StringsInv'
  BY <1>1 DEF StringsInv, StringsTypeOK
<1>2. CASE UNCHANGED stringVars \/ usingUTF8
  BY <1>1, <1>2 DEF stringVars, usingUTF8, StringsInv, StringsTypeOK
<1>3. ASSUME NEW h \in Str, encode(h) \/ encodeStatic(h) \/ substr(h) \/ normalizeSeparator(h)
      PROVE  StringsInv'
  BY <1>3, encodeInv, encodeStaticInv, substrInv, normalizeInv
<1>4. ASSUME NEW h \in Str, NEW k \in Str, copy(h, k) \/ compare(h, k) PROVE StringsInv'
  BY <1>4, copyInv, compareInv
<1>5. ASSUME NEW h \in Str, NEW v \in View, share(h, v) PROVE StringsInv'
  BY <1>5, shareInv
<1>6. ASSUME NEW v \in View, release(v) PROVE StringsInv'
  BY <1>6, releaseInv
<1>. QED  BY <1>2, <1>3, <1>4, <1>5, <1>6 DEF StringsNext

\* Every object, string, view and cache of a literal agrees on the text in every reachable
\* state (StringsInv).
THEOREM StringsConsistent == StringsSpec => []StringsInv
BY StringsInitInv, StringsNextInv, PTL DEF StringsSpec

LEMMA EmptyText ==
    ASSUME StringsInv, NEW h \in Str
    PROVE  IsEmpty(h) <=> spelt[h] = <<>>
<1>1. CASE str_data[h] = NoData
  BY <1>1 DEF StringsInv, IsEmpty
<1>2. CASE str_data[h] # NoData
  <2>1. spelt[h] \in Seq(Chars) /\ IsObject(objects[str_data[h]], str_data[h], spelt[h])
    BY <1>2, StringObject
  <2>2. spelt[h] = <<>> => \A e \in Encoding : ~Filled(objects[str_data[h]], e)
    BY <2>1, WrittenText DEF IsObject, Filled
  <2>. QED  BY <1>2, <2>1, <2>2 DEF IsObject, IsEmpty, Encoding
<1>. QED  BY <1>1, <1>2

\* Two strings are equal exactly when their texts are.
LEMMA SameTexts ==
    ASSUME StringsInv, NEW h \in Str, NEW k \in Str
    PROVE  Same(h, k) <=> spelt[h] = spelt[k]
<1>1. CASE IsEmpty(h) \/ IsEmpty(k)
  BY <1>1, EmptyText DEF Same
<1>2. CASE ~IsEmpty(h) /\ ~IsEmpty(k)
  <2> DEFINE enc == ComparedIn(h, k)
             a == objects[str_data[h]]
             b == objects[str_data[k]]
  <2>1. str_data[h] # NoData /\ str_data[k] # NoData
    BY <1>2 DEF IsEmpty
  <2>2. /\ spelt[h] \in Seq(Chars) /\ IsObject(a, str_data[h], spelt[h])
        /\ spelt[k] \in Seq(Chars) /\ IsObject(b, str_data[k], spelt[k])
        /\ spelt[h] # <<>> /\ spelt[k] # <<>>
    BY <1>2, <2>1, StringObject, EmptyText
  <2>3. enc \in Encoding
    BY DEF ComparedIn, Narrow, Encoding
  <2>4. enc # "s" \/ (~Filled(a, "ws") /\ ~Filled(b, "ws") /\ ~Filled(a, "u8") /\ ~Filled(b, "u8"))
    BY DEF ComparedIn, Narrow
  <2>5. Same(h, k) <=> Fill(enc, a, str_data[h])[enc].text = Fill(enc, b, str_data[k])[enc].text
    BY <1>2 DEF Same
  <2> HIDE DEF enc, a, b
  <2>6. /\ Spells(Fill(enc, a, str_data[h]), enc, spelt[h])
        /\ Spells(Fill(enc, b, str_data[k]), enc, spelt[k])
    BY <2>2, <2>3, FillObject
  <2>7. enc = "s" => Lossless("s", spelt[h]) /\ Lossless("s", spelt[k])
    BY <2>2, <2>4 DEF IsObject
  <2>8. Written(enc, spelt[h]) = spelt[h] /\ Written(enc, spelt[k]) = spelt[k]
    BY <2>2, <2>7, WrittenText DEF Lossless
  <2>. QED  BY <2>5, <2>6, <2>8 DEF Spells
<1>. QED  BY <1>1, <1>2

\* A string reads as its text in every encoding, however strings share objects (TextKept).
THEOREM TextsKept == StringsSpec => []TextKept
<1>1. StringsInv => TextKept
  <2> SUFFICES ASSUME StringsInv PROVE TextKept
    OBVIOUS
  <2>1. ASSUME NEW h \in Str, NEW enc \in Encoding, str_data[h] # NoData
        PROVE  /\ Reads(enc, spelt[h], Fill(enc, objects[str_data[h]], str_data[h])[enc], str_data[h])
               /\ Filled(objects[str_data[h]], enc)
                    => Reads(enc, spelt[h], objects[str_data[h]][enc], str_data[h])
    <3> DEFINE d == str_data[h]
               o == objects[d]
    <3>1. spelt[h] \in Seq(Chars) /\ IsObject(o, d, spelt[h])
      BY <2>1, StringObject
    <3> HIDE DEF d, o
    <3>2. IsObject(Fill(enc, o, d), d, spelt[h]) /\ Spells(Fill(enc, o, d), enc, spelt[h])
      BY <3>1, FillObject
    <3>3. \A n : IsObject(n, d, spelt[h]) => n[enc].at \in {d, Static}
      BY DEF IsObject
    <3>4. Filled(o, enc) => o[enc].text = Written(enc, spelt[h])
      BY <3>1 DEF IsObject
    <3>. QED  BY <3>1, <3>2, <3>3, <3>4 DEF Spells, Reads, d, o
  <2>2. ASSUME NEW v \in View, views[v] # NoData
        PROVE  /\ objects[views[v].data][views[v].enc] = views[v].slot
               /\ views[v].slot.at \in {views[v].data, Static}
    <3>1. IsView(objects, views[v])
      BY <2>2 DEF StringsInv
    <3>. QED  BY <3>1 DEF IsView, IsObject
  <2>3. \A h, k \in Str : Same(h, k) <=> spelt[h] = spelt[k]
    BY SameTexts
  <2>. QED  BY <2>1, <2>2, <2>3 DEF TextKept
<1>. QED  BY <1>1, StringsConsistent, PTL

(***************************************************************************)
(* ViewBuf                                                                   *)
(***************************************************************************)

LEMMA ElementTypes ==
    /\ newLine \in Element /\ newLine.id = NoId /\ newLine.act = NoAct
    /\ plainText \in Drawable /\ plainText.id = NoId /\ plainText.act = NoAct
    /\ Component \subseteq Drawable
    /\ \A c \in Drawable : c.text \in Seq(Token) /\ c \in Element
    /\ \A c \in Drawable, text \in Seq(Token) :
          LET d == [c EXCEPT !.text = text] IN
          d \in Element /\ d.id = c.id /\ d.act = c.act /\ d.type = c.type /\ d.init = c.init
    /\ \A text \in Text : text \in Seq(Token)
    /\ \A d \in Element : \E c \in Drawable : d = [c EXCEPT !.text = d.text]
<1>1. ASSUME NEW c \in Component
      PROVE  c = [type |-> c.type, id |-> c.id, text |-> c.text, act |-> c.act, init |-> c.init]
             /\ c.text \in Seq(Range(c.text))
  BY ComponentAssumption
<1>2. \A c \in Component : Range(c.text) \subseteq Token
  BY DEF Token
<1>3. \A text \in Text : Range(text) \subseteq Token
  BY DEF Token
<1>4. \A text \in Text : text \in Seq(Token)
  BY <1>3, ComponentAssumption, SeqDef
<1>5. ASSUME NEW c \in Drawable
      PROVE  c = [type |-> c.type, id |-> c.id, text |-> c.text, act |-> c.act, init |-> c.init]
             /\ c.text \in Seq(Token)
  <2>1. CASE c \in Component
    BY <1>1, <1>2, <2>1, SeqDef
  <2>2. CASE c = newLine
    BY <2>2, EmptySeq DEF newLine
  <2>3. CASE c = plainText
    BY <2>3, EmptySeq DEF plainText
  <2>. QED  BY <2>1, <2>2, <2>3 DEF Drawable
<1>6. ASSUME NEW c \in Drawable, NEW text \in Seq(Token)
      PROVE  LET d == [c EXCEPT !.text = text] IN
             d \in Element /\ d.id = c.id /\ d.act = c.act /\ d.type = c.type /\ d.init = c.init
  <2> DEFINE d == [c EXCEPT !.text = text]
  <2>1. d = [type |-> c.type, id |-> c.id, text |-> text, act |-> c.act, init |-> c.init]
    BY <1>5
  <2>2. d = [c EXCEPT !.text = d.text]
    BY <2>1
  <2> HIDE DEF d
  <2>3. d \in [type : {b.type : b \in Drawable}, id : {b.id : b \in Drawable}, text : Seq(Token),
               act : {b.act : b \in Drawable}, init : {b.init : b \in Drawable}]
    BY <2>1
  <2>4. d \in Element
    BY <2>2, <2>3 DEF Element
  <2>. QED  BY <2>1, <2>4 DEF d
<1>7. \A c \in Drawable : c \in Element
  <2> SUFFICES ASSUME NEW c \in Drawable PROVE c \in Element
    OBVIOUS
  <2>1. c = [c EXCEPT !.text = c.text]
    BY <1>5
  <2>. QED  BY <1>5, <1>6, <2>1
<1>8. newLine \in Drawable /\ plainText \in Drawable /\ Component \subseteq Drawable
  BY DEF Drawable
<1>9. newLine.id = NoId /\ newLine.act = NoAct /\ plainText.id = NoId /\ plainText.act = NoAct
  BY DEF newLine, plainText
<1>10. \A d \in Element : \E c \in Drawable : d = [c EXCEPT !.text = d.text]
  BY DEF Element
<1>. QED  BY <1>4, <1>5, <1>6, <1>7, <1>8, <1>9, <1>10

LEMMA LinesType ==
    ASSUME NEW text \in Seq(Token)
    PROVE  Lines(text) \in Seq(Seq(Token)) /\ Lines(text) # <<>>
<1> DEFINE ends == {i \in DOMAIN text : text[i] = NL}
           at(k) == {i \in DOMAIN text \ ends : Cardinality({j \in ends : j < i}) = k - 1}
           line(k) == IF at(k) = {} THEN <<>> ELSE SubSeq(text, Min(at(k)), Max(at(k)))
           n == Cardinality(ends) + 1
<1>1. DOMAIN text = 1 .. Len(text) /\ Len(text) \in Nat
  OBVIOUS
<1>2. IsFiniteSet(1 .. Len(text))
  BY <1>1, FS_Interval
<1>3. IsFiniteSet(ends)
  <2>1. ends \in SUBSET (1 .. Len(text))
    BY <1>1
  <2>. QED  BY <1>2, <2>1, FS_Subset
<1>4. n \in Nat /\ n >= 1
  <2> HIDE DEF ends
  <2>. QED  BY <1>3, FS_CardinalityType
<1>5. ASSUME NEW k \in 1 .. n PROVE line(k) \in Seq(Token)
  <2>1. CASE at(k) = {}
    BY <2>1
  <2>2. CASE at(k) # {}
    <3>1. at(k) \in SUBSET (1 .. Len(text))
      BY <1>1
    <3> HIDE DEF at
    <3>2. Min(at(k)) \in 1 .. Len(text) /\ Max(at(k)) \in 1 .. Len(text)
      BY <1>1, <2>2, <3>1, SmallestAndLargest
    <3>3. SubSeq(text, Min(at(k)), Max(at(k))) \in Seq(Token)
      BY <3>2, SubSeqProperties
    <3>. QED  BY <2>2, <3>3
  <2>. QED  BY <2>1, <2>2
<1>6. Lines(text) = [k \in 1 .. n |-> line(k)]
  BY DEF Lines
<1> HIDE DEF n, line
<1>7. Lines(text) \in [1 .. n -> Seq(Token)]
  BY <1>5, <1>6
<1> HIDE DEF Lines
<1>8. Lines(text) \in Seq(Seq(Token)) /\ Len(Lines(text)) = n
  BY <1>4, <1>7
<1>. QED  BY <1>4, <1>8

LEMMA AddTextType ==
    ASSUME NEW text \in Seq(Token), NEW c \in Drawable
    PROVE  addText(text, c) \in Seq(Element)
<1> DEFINE lines == Lines(text)
           line(k) == IF lines[k] = <<>> THEN <<>> ELSE <<[c EXCEPT !.text = lines[k]]>>
           part(k) == line(k) \o (IF k < Len(lines) THEN <<newLine>> ELSE <<>>)
           n == Len(lines)
           q == [k \in 1 .. n |-> part(k)]
<1>1. n \in Nat /\ \A k \in 1 .. n : lines[k] \in Seq(Token)
  <2>1. lines \in Seq(Seq(Token))
    BY LinesType
  <2> HIDE DEF lines
  <2>. QED  BY <2>1
<1>2. ASSUME NEW k \in 1 .. n PROVE part(k) \in Seq(Element)
  <2>1. [c EXCEPT !.text = lines[k]] \in Element /\ newLine \in Element
    BY <1>1, ElementTypes
  <2> DEFINE d == [c EXCEPT !.text = lines[k]]
             first == IF lines[k] = <<>> THEN <<>> ELSE <<d>>
             rest == IF k < Len(lines) THEN <<newLine>> ELSE <<>>
  <2>2. part(k) = first \o rest
    OBVIOUS
  <2> HIDE DEF d, part
  <2>3. first \in Seq(Element) /\ rest \in Seq(Element)
    BY <2>1 DEF d
  <2> HIDE DEF first, rest
  <2>. QED  BY <2>2, <2>3, ConcatProperties
<1>3. addText(text, c) = FlattenSeq(q)
  BY DEF addText
<1> HIDE DEF part, n
<1>4. q \in Seq(Seq(Element))
  <2>1. q \in [1 .. n -> Seq(Element)]
    BY <1>2
  <2> HIDE DEF q
  <2>. QED  BY <1>1, <2>1
<1> HIDE DEF q
<1>. QED  BY <1>3, <1>4, FlattenType

LEMMA AddedType == ASSUME NEW c \in Component PROVE Added(c) \in Seq(Element)
<1>1. c \in Drawable /\ c.text \in Seq(Token) /\ c \in Element
  BY ElementTypes
<1>2. CASE c.type = "text"
  BY <1>1, <1>2, AddTextType DEF Added
<1>3. CASE c.type # "text"
  <2>1. Added(c) = <<c>>
    BY <1>3 DEF Added
  <2>. QED  BY <1>1, <2>1
<1>. QED  BY <1>2, <1>3

LEMMA FlushedType == ASSUME BufTypeOK PROVE Flushed \in Seq(Element)
<1>1. addText(str, plainText) \in Seq(Element)
  BY ElementTypes, AddTextType DEF BufTypeOK
<1>. QED  BY <1>1, ConcatProperties DEF Flushed, BufTypeOK

LEMMA ElementIds ==
    ASSUME NEW d \in Element
    PROVE  /\ d.id = NoId \/ Len(d.id) = 1
           /\ d.act # NoAct => \E c \in Component : c.id = d.id /\ c.act = d.act
<1>1. PICK c \in Drawable : d = [c EXCEPT !.text = d.text]
  BY ElementTypes
<1>2. d.text \in Seq(Token)
  BY DEF Element
<1>3. d.id = c.id /\ d.act = c.act
  BY <1>1, <1>2, ElementTypes
<1>4. CASE c \in Component
  <2>1. c.id \in Seq(Range(c.id)) /\ Len(c.id) <= 1
    BY <1>4, ComponentAssumption
  <2>2. Len(c.id) \in Nat /\ (Len(c.id) = 0 => c.id = <<>>)
    BY <2>1
  <2>3. Len(c.id) = 0 \/ Len(c.id) = 1
    <3>1. \A n \in Nat : n <= 1 => n = 0 \/ n = 1
      OBVIOUS
    <3>. QED  BY <2>1, <2>2, <3>1, Zenon
  <2>4. d.id = NoId \/ Len(d.id) = 1
    BY <1>3, <2>2, <2>3 DEF NoId
  <2>. QED  BY <1>3, <1>4, <2>4
<1>5. CASE c \notin Component
  BY <1>3, <1>5, ElementTypes DEF Drawable
<1>. QED  BY <1>4, <1>5

\* An id is the one of its component, or a place.
LEMMA IdsOf ==
    ASSUME NEW cs \in Seq(Element), NEW k \in DOMAIN cs
    PROVE  IsIdOf(Ids(cs)[k], cs[k]) /\ Ids(cs)[k] \in Range(Ids(cs))
<1> DEFINE a == cs[k].type
           b == Cardinality({j \in 1 .. k - 1 : cs[j].type = cs[k].type})
<1>1. DOMAIN Ids(cs) = DOMAIN cs /\ Ids(cs)[k] = LockedId(cs, k)
  BY DEF Ids
<1>2. cs[k].id = NoId => LockedId(cs, k) = <<a, b>>
  BY DEF LockedId
<1> HIDE DEF a, b
<1>3. Len(<<a, b>>) = 2
  OBVIOUS
<1>4. cs[k].id # NoId => LockedId(cs, k) = cs[k].id
  BY DEF LockedId
<1>. QED  BY <1>1, <1>2, <1>3, <1>4 DEF IsIdOf, Range

LEMMA BufInitInv == BufInit => BufInv
<1> SUFFICES ASSUME BufInit PROVE BufInv
  OBVIOUS
<1> USE DEF BufInit
<1>1. BufTypeOK
  <2>1. <<>> \in Seq(Token) /\ <<>> \in Seq(Element)
    OBVIOUS
  <2>2. DOMAIN field = Ref /\ queued.version \in Nat
    BY DEF NoPicture
  <2>. QED  BY <2>1, <2>2 DEF BufTypeOK
<1>2. /\ DOMAIN queued.components = {} /\ picture = queued /\ shown = queued
      /\ DOMAIN functions = {} /\ DOMAIN queued_funcs = {} /\ DOMAIN entered = {}
  BY DEF NoPicture, NothingWaits
<1>3. BoundByComponents /\ FunctionsBound /\ PicturesRegistered
  BY <1>2 DEF BoundByComponents, FunctionsBound, PicturesRegistered
<1>4. Bindings /\ ClickRuns
  BY <1>2 DEF Bindings, ClickRuns
<1>. QED  BY <1>1, <1>3, <1>4 DEF BufInv

\* What a step that only writes leaves as it was.
LEMMA DrawingKeeps ==
    ASSUME BufInv, UNCHANGED <<boundVars, pictureVars, viewerVars>>, ran' = {}
    PROVE  BoundByComponents' /\ FunctionsBound' /\ PicturesRegistered' /\ Bindings' /\ ClickRuns'
<1> USE DEF BufInv, boundVars, pictureVars, viewerVars
<1>1. BoundByComponents' /\ FunctionsBound'
  BY DEF BoundByComponents, FunctionsBound
<1>2. PicturesRegistered'
  BY DEF PicturesRegistered, Clickable
<1>3. Bindings' /\ ClickRuns'
  BY DEF Bindings, ClickRuns
<1>. QED  BY <1>1, <1>2, <1>3

LEMMA WriteInv == ASSUME BufInv, NEW text \in Text, write(text) PROVE BufInv'
<1> USE DEF BufInv, write
<1>1. BoundByComponents' /\ FunctionsBound' /\ PicturesRegistered' /\ Bindings' /\ ClickRuns'
  BY DrawingKeeps
<1>2. str' \in Seq(Token)
  BY ElementTypes, ConcatProperties DEF BufTypeOK
<1>3. BufTypeOK'
  BY <1>2 DEF BufTypeOK, boundVars, pictureVars
<1>. QED  BY <1>1, <1>3

LEMMA AddInv == ASSUME BufInv, NEW c \in Component, add(c) PROVE BufInv'
<1> USE DEF BufInv, add
<1>1. BoundByComponents' /\ FunctionsBound' /\ PicturesRegistered' /\ Bindings' /\ ClickRuns'
  BY DrawingKeeps
<1>2. Flushed \in Seq(Element) /\ Added(c) \in Seq(Element)
  BY FlushedType, AddedType
<1>3. components_' \in Seq(Element)
  BY <1>2, ConcatProperties
<1>4. str' \in Seq(Token) /\ covered' \in BOOLEAN
  <2>1. <<>> \in Seq(Token)
    OBVIOUS
  <2>. QED  BY <2>1 DEF BufTypeOK
<1>5. BufTypeOK'
  BY <1>3, <1>4 DEF BufTypeOK, boundVars, pictureVars
<1>. QED  BY <1>1, <1>5

LEMMA BufInitStepInv == ASSUME BufInv, init PROVE BufInv'
<1> USE DEF BufInv, init
<1>1. BoundByComponents' /\ FunctionsBound' /\ PicturesRegistered' /\ Bindings' /\ ClickRuns'
  BY DrawingKeeps
<1>2. <<>> \in Seq(Element)
  OBVIOUS
<1>3. BufTypeOK'
  BY <1>2 DEF BufTypeOK, boundVars, pictureVars
<1>. QED  BY <1>1, <1>3

LEMMA LookInv == ASSUME BufInv, look PROVE BufInv'
<1> USE DEF BufInv, look, bufVars, boundVars, pictureVars
<1>1. BufTypeOK' /\ BoundByComponents' /\ FunctionsBound' /\ Bindings' /\ ClickRuns'
  BY DEF BufTypeOK, BoundByComponents, FunctionsBound, Bindings, ClickRuns
<1>2. PicturesRegistered'
  BY DEF PicturesRegistered, Clickable
<1>. QED  BY <1>1, <1>2

LEMMA ClickInv ==
    ASSUME BufInv, NEW i \in DOMAIN shown.components, NEW val \in Val, click(i, val)
    PROVE  BufInv'
<1> USE DEF BufInv, bufVars, boundVars, pictureVars
<1>1. PICK c : c = [id |-> i, val |-> val, seen |-> shown.components[i]]
  OBVIOUS
<1>2. /\ call' = {c} /\ ran' = {} /\ shown.components[i].act # NoAct
      /\ UNCHANGED <<bufVars, boundVars, pictureVars, shown, entered, written, covered>>
  BY <1>1 DEF click
<1>3. c.id = i /\ c.seen = shown.components[i]
  BY <1>1
<1>4. BufTypeOK' /\ BoundByComponents' /\ FunctionsBound' /\ Bindings' /\ ClickRuns'
  BY <1>2 DEF BufTypeOK, BoundByComponents, FunctionsBound, Bindings, ClickRuns
<1>5. PicturesRegistered'
  BY <1>2, <1>3 DEF PicturesRegistered, Clickable
<1>. QED  BY <1>4, <1>5

\* What is stored is what was stored, or what waited first.
LEMMA TransferInv == ASSUME BufInv, transferSend PROVE BufInv'
<1> USE DEF BufInv, transferSend, bufVars
<1>1. BufTypeOK' /\ BoundByComponents' /\ Bindings' /\ ClickRuns'
  BY DEF BufTypeOK, BoundByComponents, Bindings, ClickRuns, viewerVars
<1>2. /\ DOMAIN functions' = DOMAIN functions \cup DOMAIN queued_funcs
      /\ \A i \in DOMAIN functions' :
            functions'[i] = IF i \in DOMAIN functions THEN functions[i] ELSE queued_funcs[i].first
  BY DEF Assigned
<1>3. DOMAIN queued_funcs' = {}
  BY DEF NothingWaits
<1>4. FunctionsBound'
  BY <1>2, <1>3 DEF FunctionsBound
<1>5. PicturesRegistered'
  BY <1>2, <1>3 DEF PicturesRegistered, Clickable, viewerVars
<1>. QED  BY <1>1, <1>4, <1>5

LEMMA RunInv == ASSUME BufInv, run PROVE BufInv'
<1> USE DEF BufInv, bufVars, pictureVars
<1>1. PICK c \in call :
        LET act == getFunc(c.id) IN
        /\ call' = {}
        /\ IF act \in Ref
           THEN /\ values' = Assigned([i \in {field[act]} |-> c.val], values)
                /\ entered' = Assigned([i \in {c.id} |-> c.val], entered)
           ELSE UNCHANGED <<values, entered>>
        /\ ran' = {[id |-> c.id, did |-> act, seen |-> c.seen]}
        /\ UNCHANGED <<bufVars, queued_funcs, functions, bound, field, bound_alike, pictureVars,
                       shown, written, covered>>
  BY DEF run
<1>2. BufTypeOK' /\ BoundByComponents' /\ FunctionsBound'
  BY <1>1 DEF BufTypeOK, BoundByComponents, FunctionsBound
<1>3. PicturesRegistered'
  BY <1>1 DEF PicturesRegistered, Clickable
<1> DEFINE act == getFunc(c.id)
<1>4. /\ c.seen \in Element /\ IsIdOf(c.id, c.seen) /\ c.seen.act # NoAct
      /\ <<c.id, c.seen.act>> \in bound /\ <<c.id, act>> \in bound
  BY DEF PicturesRegistered, Clickable, FunctionsBound, getFunc
<1> HIDE DEF act
<1>5. ClickRuns'
  <2>1. PICK r : r = [id |-> c.id, did |-> act, seen |-> c.seen]
    OBVIOUS
  <2>2. r.id = c.id /\ r.did = act /\ r.seen = c.seen
    BY <2>1
  <2>3. ran' = {r} /\ bound' = bound
    BY <1>1, <2>1 DEF act
  <2>4. ASSUME c.seen.id # NoId PROVE act = c.seen.act \/ {act, c.seen.act} \subseteq Ref
    <3>1. PICK d \in Component : d.act = act /\ d.act # NoAct /\ IsIdOf(c.id, d)
      <4>1. PICK b : b = <<c.id, act>>
        OBVIOUS
      <4>2. b \in bound /\ b[1] = c.id /\ b[2] = act
        BY <1>4, <4>1
      <4>. QED  BY <4>2 DEF BoundByComponents
    <3>2. PICK e \in Component : e.id = c.seen.id /\ e.act = c.seen.act
      BY <1>4, ElementIds
    <3>3. c.id = c.seen.id /\ Len(c.id) = 1
      BY <1>4, <2>4, ElementIds DEF IsIdOf
    <3>4. d.id = c.id
      BY <3>1, <3>3 DEF IsIdOf
    <3>5. d.id = e.id /\ e.id # NoId /\ NoAct \notin {d.act, e.act}
      BY <1>4, <2>4, <3>1, <3>2, <3>3, <3>4
    <3>6. d.act = e.act \/ {d.act, e.act} \subseteq Ref
      BY <3>5, ComponentAssumption
    <3>. QED  BY <3>1, <3>2, <3>6
  <2>5. ASSUME \A b \in bound : b[1] = c.id => b[2] = c.seen.act PROVE act = c.seen.act
    <3>1. PICK b : b = <<c.id, act>>
      OBVIOUS
    <3>2. b \in bound /\ b[1] = c.id /\ b[2] = act
      BY <1>4, <3>1
    <3>. QED  BY <2>5, <3>2
  <2>6. <<r.id, r.did>> \in bound
    BY <1>4, <2>2
  <2>. QED  BY <2>2, <2>3, <2>4, <2>5, <2>6 DEF ClickRuns
<1>6. Bindings'
  <2>1. CASE act \notin Ref
    BY <1>1, <2>1 DEF Bindings, act
  <2>2. CASE act \in Ref
    <3> SUFFICES ASSUME bound_alike PROVE Bindings'
      BY <1>1 DEF Bindings
    <3>1. IF Len(c.id) = 2 THEN Len(field[act]) = 2 ELSE field[act] = c.id
      <4>1. PICK b : b = <<c.id, act>>
        OBVIOUS
      <4>2. b \in bound /\ b[1] = c.id /\ b[2] = act
        BY <1>4, <4>1
      <4>. QED  BY <2>2, <4>2 DEF Bindings
    <3>2. values' = Assigned([i \in {field[act]} |-> c.val], values) /\ entered' = Assigned([i \in {c.id} |-> c.val], entered)
      BY <1>1, <2>2 DEF act
    <3>4. /\ DOMAIN values' = DOMAIN values \cup {field[act]} /\ values'[field[act]] = c.val
          /\ \A x \in DOMAIN values : x # field[act] => values'[x] = values[x]
      BY <3>2 DEF Assigned
    <3>5. /\ DOMAIN entered' = DOMAIN entered \cup {c.id} /\ entered'[c.id] = c.val
          /\ \A x \in DOMAIN entered : x # c.id => entered'[x] = entered[x]
      BY <3>2 DEF Assigned
    <3>3. ASSUME NEW i \in DOMAIN entered', Len(i) = 1
          PROVE  i \in DOMAIN values' /\ values'[i] = entered'[i]
      <4>1. CASE i = c.id
        <5>1. field[act] = i
          BY <3>1, <3>3, <4>1
        <5>. QED  BY <3>4, <3>5, <4>1, <5>1
      <4>2. CASE i # c.id
        <5>1. i \in DOMAIN entered /\ entered'[i] = entered[i]
          BY <3>3, <3>5, <4>2
        <5>2. i \in DOMAIN values /\ values[i] = entered[i]
          BY <3>3, <5>1 DEF Bindings
        <5>3. i # field[act]
          BY <3>1, <3>3, <4>2
        <5>. QED  BY <3>4, <5>1, <5>2, <5>3
      <4>. QED  BY <4>1, <4>2
    <3>. QED  BY <1>1, <3>3 DEF Bindings
  <2>. QED  BY <2>1, <2>2
<1>. QED  BY <1>2, <1>3, <1>5, <1>6

\* What the operators of a drawing say of the component at place k.
LEMMA PlaceFound ==
    ASSUME NEW cs \in Seq(Element), NEW S \in SUBSET DOMAIN cs, S # {}
    PROVE  Min(S) \in S /\ Max(S) \in S
<1>1. DOMAIN cs = 1 .. Len(cs) /\ Len(cs) \in Nat
  BY LenProperties
<1>. QED  BY <1>1, SmallestAndLargest

LEMMA PictureOf ==
    ASSUME NEW cs \in Seq(Element)
    PROVE  /\ DOMAIN Picture(cs).components = Range(Ids(cs))
           /\ Picture(cs).version = queued.version + 1
           /\ \A i \in Range(Ids(cs)) : \E k \in DOMAIN cs :
                 Picture(cs).components[i] = cs[k] /\ Ids(cs)[k] = i
<1> DEFINE at(i) == {k \in DOMAIN cs : Ids(cs)[k] = i}
           found == [i \in Range(Ids(cs)) |-> cs[Min(at(i))]]
<1>1. Picture(cs).components = found /\ Picture(cs).version = queued.version + 1
  BY DEF Picture
<1>2. ASSUME NEW i \in Range(Ids(cs)) PROVE Min(at(i)) \in at(i)
  <2>1. at(i) # {}
    BY DEF Range, Ids
  <2>2. at(i) \in SUBSET DOMAIN cs
    OBVIOUS
  <2> HIDE DEF at
  <2>. QED  BY <2>1, <2>2, PlaceFound
<1>3. ASSUME NEW i \in Range(Ids(cs))
      PROVE  \E k \in DOMAIN cs : found[i] = cs[k] /\ Ids(cs)[k] = i
  <2>1. Min(at(i)) \in DOMAIN cs /\ Ids(cs)[Min(at(i))] = i
    BY <1>2
  <2>. QED  BY <2>1
<1> HIDE DEF at
<1>. QED  BY <1>1, <1>3

LEMMA RegisteredOf ==
    ASSUME NEW cs \in Seq(Element)
    PROVE  /\ \A b \in Acting(cs) : \E k \in DOMAIN cs :
                 b = <<Ids(cs)[k], cs[k].act>> /\ cs[k].act # NoAct
           /\ \A k \in DOMAIN cs : cs[k].act # NoAct =>
                 /\ <<Ids(cs)[k], cs[k].act>> \in Acting(cs)
                 /\ Ids(cs)[k] \in DOMAIN Registered(cs)
           /\ DOMAIN queued_funcs \subseteq DOMAIN Registered(cs)
           /\ \A i \in DOMAIN Registered(cs) :
                 /\ \/ i \in DOMAIN queued_funcs /\ Registered(cs)[i].first = queued_funcs[i].first
                    \/ <<i, Registered(cs)[i].first>> \in Acting(cs)
                 /\ \/ i \in DOMAIN queued_funcs /\ Registered(cs)[i].last = queued_funcs[i].last
                    \/ <<i, Registered(cs)[i].last>> \in Acting(cs)
<1> DEFINE at(i) == {k \in DOMAIN cs : cs[k].act # NoAct /\ Ids(cs)[k] = i}
           new == {b[1] : b \in Acting(cs)}
           old == DOMAIN queued_funcs
           found(i) == [first |-> IF i \in old THEN queued_funcs[i].first ELSE cs[Min(at(i))].act,
                        last |-> IF i \in new THEN cs[Max(at(i))].act ELSE queued_funcs[i].last]
<1>1. DOMAIN Registered(cs) = new \cup old /\ \A i \in new \cup old : Registered(cs)[i] = found(i)
  BY DEF Registered
<1>2. \A b \in Acting(cs) : \E k \in DOMAIN cs : b = <<Ids(cs)[k], cs[k].act>> /\ cs[k].act # NoAct
  BY DEF Acting
<1>3. ASSUME NEW k \in DOMAIN cs, cs[k].act # NoAct
      PROVE  <<Ids(cs)[k], cs[k].act>> \in Acting(cs) /\ Ids(cs)[k] \in new
  <2>1. PICK b : b = <<Ids(cs)[k], cs[k].act>>
    OBVIOUS
  <2>2. b \in Acting(cs) /\ b[1] = Ids(cs)[k]
    BY <1>3, <2>1 DEF Acting
  <2>. QED  BY <2>1, <2>2
<1>4. ASSUME NEW i \in new
      PROVE  <<i, cs[Min(at(i))].act>> \in Acting(cs) /\ <<i, cs[Max(at(i))].act>> \in Acting(cs)
  <2>1. PICK b \in Acting(cs) : b[1] = i
    BY <1>4
  <2>2. PICK k \in DOMAIN cs : b = <<Ids(cs)[k], cs[k].act>> /\ cs[k].act # NoAct
    BY <1>2
  <2>3. k \in at(i)
    BY <2>1, <2>2
  <2>4. at(i) \in SUBSET DOMAIN cs
    OBVIOUS
  <2>5. \A j \in at(i) : j \in DOMAIN cs /\ cs[j].act # NoAct /\ Ids(cs)[j] = i
    OBVIOUS
  <2> HIDE DEF at
  <2>6. Min(at(i)) \in at(i) /\ Max(at(i)) \in at(i)
    BY <2>3, <2>4, PlaceFound
  <2>. QED  BY <1>3, <2>5, <2>6
<1> HIDE DEF at, new, old
<1>5. ASSUME NEW i \in new \cup old
      PROVE  /\ (i \in old /\ found(i).first = queued_funcs[i].first) \/ <<i, found(i).first>> \in Acting(cs)
             /\ (i \in old /\ found(i).last = queued_funcs[i].last) \/ <<i, found(i).last>> \in Acting(cs)
  <2>1. CASE i \in old
    <3>1. found(i).first = queued_funcs[i].first
      BY <2>1
    <3>2. found(i).last = IF i \in new THEN cs[Max(at(i))].act ELSE queued_funcs[i].last
      OBVIOUS
    <3>. QED  BY <1>4, <2>1, <3>1, <3>2
  <2>2. CASE i \notin old
    <3>1. i \in new /\ found(i).first = cs[Min(at(i))].act /\ found(i).last = cs[Max(at(i))].act
      BY <1>5, <2>2
    <3>. QED  BY <1>4, <3>1
  <2>. QED  BY <2>1, <2>2
<1> HIDE DEF found
<1>. QED  BY <1>1, <1>2, <1>3, <1>5 DEF old

LEMMA LockedOf ==
    ASSUME NEW cs \in Seq(Element)
    PROVE  /\ DOMAIN Locked(cs) = {cs[k].act : k \in DOMAIN cs} \cap Ref
           /\ \A r \in DOMAIN Locked(cs) : \E k \in DOMAIN cs :
                 Locked(cs)[r] = Ids(cs)[k] /\ cs[k].act = r
<1> DEFINE at(r) == {k \in DOMAIN cs : cs[k].act = r}
           found == [r \in {cs[k].act : k \in DOMAIN cs} \cap Ref |-> Ids(cs)[Max(at(r))]]
<1>1. Locked(cs) = found
  BY DEF Locked
<1>2. ASSUME NEW r \in {cs[k].act : k \in DOMAIN cs} \cap Ref PROVE Max(at(r)) \in at(r)
  <2>1. at(r) # {}
    OBVIOUS
  <2>2. at(r) \in SUBSET DOMAIN cs
    OBVIOUS
  <2> HIDE DEF at
  <2>. QED  BY <2>1, <2>2, PlaceFound
<1>3. ASSUME NEW r \in {cs[k].act : k \in DOMAIN cs} \cap Ref
      PROVE  \E k \in DOMAIN cs : found[r] = Ids(cs)[k] /\ cs[k].act = r
  <2>1. Max(at(r)) \in DOMAIN cs /\ cs[Max(at(r))].act = r
    BY <1>2
  <2>. QED  BY <2>1
<1> HIDE DEF at
<1>. QED  BY <1>1, <1>3

LEMMA OthersRegistered ==
    ASSUME functions' = functions, picture' = picture, shown' = shown, call' = call,
           bound \subseteq bound',
           \A i \in DOMAIN queued'.components :
               /\ queued'.components[i] \in Element /\ IsIdOf(i, queued'.components[i])
               /\ queued'.components[i].act # NoAct =>
                     /\ <<i, queued'.components[i].act>> \in bound'
                     /\ i \in DOMAIN functions' \cup DOMAIN queued_funcs',
           \A i \in DOMAIN picture'.components : Clickable(i, picture.components[i], DOMAIN functions),
           \A i \in DOMAIN shown'.components : Clickable(i, shown.components[i], DOMAIN functions),
           \A c \in call' : Clickable(c.id, c.seen, DOMAIN functions) /\ c.seen.act # NoAct
    PROVE  PicturesRegistered'
BY DEF PicturesRegistered, Clickable

LEMMA NothingRan == ASSUME ran' = {} PROVE ClickRuns'
BY DEF ClickRuns

\* A drawing that waits to be sent.
LEMMA DrawnInv ==
    ASSUME BufInv, NEW cs, cs = Flushed, str' = <<>>, components_' = cs, modified_' = FALSE,
           moved' = (cs # <<>>), queued' = Picture(cs), queued_funcs' = Registered(cs),
           bound' = bound \cup Acting(cs), field' = Assigned(Locked(cs), field),
           values' = Assigned(Initialised(cs), values),
           bound_alike' = (bound_alike /\ BoundAlike(cs)),
           UNCHANGED <<functions, picture, viewerVars, covered>>, ran' = {}
    PROVE  BufInv'
<1> USE DEF BufInv, viewerVars
<1> DEFINE ids == Ids(cs)
<1>1. cs \in Seq(Element)
  BY FlushedType
<1>2. \A k \in DOMAIN cs : cs[k] \in Element /\ IsIdOf(ids[k], cs[k])
  BY <1>1, IdsOf, LenProperties
<1>3. /\ DOMAIN queued'.components = Range(ids) /\ queued'.version = queued.version + 1
      /\ \A i \in Range(ids) : \E k \in DOMAIN cs : queued'.components[i] = cs[k] /\ ids[k] = i
  BY <1>1, PictureOf
<1>4. /\ \A b \in Acting(cs) : \E k \in DOMAIN cs : b = <<ids[k], cs[k].act>> /\ cs[k].act # NoAct
      /\ \A k \in DOMAIN cs : cs[k].act # NoAct =>
            <<ids[k], cs[k].act>> \in Acting(cs) /\ ids[k] \in DOMAIN queued_funcs'
      /\ DOMAIN queued_funcs \subseteq DOMAIN queued_funcs'
      /\ \A i \in DOMAIN queued_funcs' :
            /\ \/ i \in DOMAIN queued_funcs /\ queued_funcs'[i].first = queued_funcs[i].first
               \/ <<i, queued_funcs'[i].first>> \in Acting(cs)
            /\ \/ i \in DOMAIN queued_funcs /\ queued_funcs'[i].last = queued_funcs[i].last
               \/ <<i, queued_funcs'[i].last>> \in Acting(cs)
  BY <1>1, RegisteredOf
<1>5. /\ DOMAIN Locked(cs) = {cs[k].act : k \in DOMAIN cs} \cap Ref
      /\ \A r \in DOMAIN Locked(cs) : \E k \in DOMAIN cs :
            Locked(cs)[r] = ids[k] /\ cs[k].act = r
  BY <1>1, LockedOf
<1>6. /\ DOMAIN field' = DOMAIN Locked(cs) \cup DOMAIN field
      /\ \A i \in DOMAIN Locked(cs) : field'[i] = Locked(cs)[i]
      /\ \A i \in DOMAIN field : i \notin DOMAIN Locked(cs) => field'[i] = field[i]
  BY DEF Assigned
<1>7. \A i \in DOMAIN values : i \in DOMAIN values' /\ values'[i] = values[i]
  <2>1. \A i \in DOMAIN values : i \notin DOMAIN Initialised(cs)
    BY DEF Initialised
  <2>. QED  BY <2>1 DEF Assigned
<1>8. BufTypeOK'
  <2>1. <<>> \in Seq(Token)
    OBVIOUS
  <2>2. DOMAIN field' = Ref
    BY <1>5, <1>6 DEF BufTypeOK
  <2>3. queued'.version \in Nat
    BY <1>3 DEF BufTypeOK
  <2>. QED  BY <1>1, <2>1, <2>2, <2>3 DEF BufTypeOK
<1>9. ASSUME NEW b \in Acting(cs)
      PROVE  \E c \in Component : c.act = b[2] /\ c.act # NoAct /\ IsIdOf(b[1], c)
  <2>1. PICK k \in DOMAIN cs : b = <<ids[k], cs[k].act>> /\ cs[k].act # NoAct
    BY <1>4
  <2>2. b[1] = ids[k] /\ b[2] = cs[k].act
    BY <2>1
  <2>3. PICK c \in Component : c.id = cs[k].id /\ c.act = cs[k].act
    BY <1>2, <2>1, ElementIds
  <2>4. IsIdOf(ids[k], c)
    BY <1>2, <2>3 DEF IsIdOf
  <2>. QED  BY <2>1, <2>2, <2>3, <2>4
<1>10. BoundByComponents'
  BY <1>9 DEF BoundByComponents
<1>11. FunctionsBound'
  <2>1. ASSUME NEW i \in DOMAIN queued_funcs'
        PROVE  <<i, queued_funcs'[i].first>> \in bound' /\ <<i, queued_funcs'[i].last>> \in bound'
    <3>1. i \in DOMAIN queued_funcs =>
            <<i, queued_funcs[i].first>> \in bound /\ <<i, queued_funcs[i].last>> \in bound
      BY DEF FunctionsBound
    <3>2. /\ \/ i \in DOMAIN queued_funcs /\ queued_funcs'[i].first = queued_funcs[i].first
             \/ <<i, queued_funcs'[i].first>> \in Acting(cs)
          /\ \/ i \in DOMAIN queued_funcs /\ queued_funcs'[i].last = queued_funcs[i].last
             \/ <<i, queued_funcs'[i].last>> \in Acting(cs)
      BY <1>4
    <3>. QED  BY <3>1, <3>2
  <2>2. \A i \in DOMAIN functions' : <<i, functions'[i]>> \in bound'
    BY DEF FunctionsBound
  <2>. QED  BY <2>1, <2>2 DEF FunctionsBound
<1>12. PicturesRegistered'
  <2>1. ASSUME NEW i \in DOMAIN queued'.components
        PROVE  /\ queued'.components[i] \in Element /\ IsIdOf(i, queued'.components[i])
               /\ queued'.components[i].act # NoAct =>
                     /\ <<i, queued'.components[i].act>> \in bound'
                     /\ i \in DOMAIN functions' \cup DOMAIN queued_funcs'
    <3>1. PICK k \in DOMAIN cs : queued'.components[i] = cs[k] /\ ids[k] = i
      BY <1>3, <2>1
    <3>2. cs[k] \in Element /\ IsIdOf(i, cs[k])
      BY <1>2, <3>1
    <3>3. cs[k].act # NoAct => <<i, cs[k].act>> \in bound' /\ i \in DOMAIN queued_funcs'
      BY <1>4, <3>1
    <3>. QED  BY <3>1, <3>2, <3>3
  <2>2. /\ functions' = functions /\ picture' = picture /\ shown' = shown /\ call' = call
        /\ bound \subseteq bound'
    OBVIOUS
  <2>3. /\ \A i \in DOMAIN picture'.components : Clickable(i, picture.components[i], DOMAIN functions)
        /\ \A i \in DOMAIN shown'.components : Clickable(i, shown.components[i], DOMAIN functions)
        /\ \A c \in call' : Clickable(c.id, c.seen, DOMAIN functions) /\ c.seen.act # NoAct
    BY <2>2 DEF PicturesRegistered
  <2>. QED  BY <2>1, <2>2, <2>3, OthersRegistered
<1>13. ClickRuns'
  BY NothingRan
<1>14. Bindings'
  <2> SUFFICES ASSUME bound_alike, BoundAlike(cs) PROVE Bindings'
    BY DEF Bindings
  <2>1. ASSUME NEW k \in DOMAIN cs, cs[k].act \in Ref
        PROVE  /\ \A j \in DOMAIN cs : cs[j].act = cs[k].act => j = k
               /\ \/ field[cs[k].act] \in {NoId, cs[k].id}
                  \/ cs[k].id = NoId /\ Len(field[cs[k].act]) = 2
    BY <2>1 DEF BoundAlike
  <2>2. ASSUME NEW k \in DOMAIN cs, cs[k].act \in Ref PROVE field'[cs[k].act] = ids[k]
    <3>1. cs[k].act \in DOMAIN Locked(cs)
      BY <1>5, <2>2
    <3>2. PICK j \in DOMAIN cs : Locked(cs)[cs[k].act] = ids[j] /\ cs[j].act = cs[k].act
      BY <1>5, <3>1
    <3>. QED  BY <1>6, <2>1, <2>2, <3>1, <3>2
  <2>3. ASSUME NEW b \in bound', b[2] \in Ref
        PROVE  IF Len(b[1]) = 2 THEN Len(field'[b[2]]) = 2 ELSE field'[b[2]] = b[1]
    <3>1. CASE b \in Acting(cs)
      <4>1. PICK k \in DOMAIN cs : b = <<ids[k], cs[k].act>>
        BY <1>4, <3>1
      <4>2. b[1] = ids[k] /\ b[2] = cs[k].act
        BY <4>1
      <4>3. field'[b[2]] = b[1]
        BY <2>2, <2>3, <4>2
      <4>. QED  BY <4>3
    <3>2. CASE b \notin Acting(cs)
      <4> DEFINE i == b[1]
                 r == b[2]
      <4>1. b \in bound
        BY <2>3, <3>2
      <4>2. r \in Ref /\ IF Len(i) = 2 THEN Len(field[r]) = 2 ELSE field[r] = i
        BY <2>3, <4>1 DEF Bindings
      <4>3. PICK c \in Component : IsIdOf(i, c)
        BY <4>1 DEF BoundByComponents
      <4> HIDE DEF i, r
      <4>4. CASE \E k \in DOMAIN cs : cs[k].act = r
        <5>1. PICK k \in DOMAIN cs : cs[k].act = r
          BY <4>4
        <5>2. field'[r] = ids[k] /\ IsIdOf(ids[k], cs[k]) /\ (cs[k].id = NoId \/ Len(cs[k].id) = 1)
          BY <1>2, <2>2, <4>2, <5>1, ElementIds
        <5>3. field[r] \in {NoId, cs[k].id} \/ (cs[k].id = NoId /\ Len(field[r]) = 2)
          BY <2>1, <4>2, <5>1
        <5>4. Len(NoId) = 0
          BY DEF NoId
        <5>5. CASE Len(i) = 2
          <6>1. Len(field[r]) = 2 /\ 2 # 0
            BY <4>2, <5>5
          <6>3. field[r] # NoId
            BY <5>4, <6>1, Zenon
          <6>2. cs[k].id = NoId
            <7>1. Len(cs[k].id) = 1 => field[r] # cs[k].id
              BY <6>1
            <7>. QED  BY <5>2, <5>3, <6>3, <7>1
          <6>. QED  BY <5>2, <5>5, <6>2 DEF IsIdOf, r, i
        <5>6. CASE Len(i) # 2
          <6>1. i = c.id /\ i # NoId
            BY <4>3, <5>6 DEF IsIdOf
          <6>2. cs[k].id = i
            BY <4>2, <5>3, <5>6, <6>1
          <6>. QED  BY <5>2, <5>6, <6>1, <6>2 DEF IsIdOf, r, i
        <5>. QED  BY <5>5, <5>6
      <4>5. CASE ~ \E k \in DOMAIN cs : cs[k].act = r
        <5>1. field'[r] = field[r]
          BY <1>5, <1>6, <4>2, <4>5 DEF BufTypeOK
        <5>. QED  BY <4>2, <5>1 DEF r, i
      <4>. QED  BY <4>4, <4>5
    <3>. QED  BY <3>1, <3>2
  <2>4. ASSUME NEW i \in DOMAIN queued'.components, queued'.components[i].act \in Ref
        PROVE  field'[queued'.components[i].act] = i
    <3>1. PICK k \in DOMAIN cs : queued'.components[i] = cs[k] /\ ids[k] = i
      BY <1>3, <2>4
    <3>. QED  BY <2>2, <2>4, <3>1
  <2>5. \A i \in DOMAIN entered : Len(i) = 1 => i \in DOMAIN values' /\ values'[i] = entered[i]
    BY <1>7 DEF Bindings
  <2>. QED  BY <2>3, <2>4, <2>5 DEF Bindings
<1>. QED  BY <1>8, <1>10, <1>11, <1>12, <1>13, <1>14

LEMMA SyncInv == ASSUME BufInv, sync PROVE BufInv'
<1> DEFINE changed == modified_ \/ str # <<>>
<1>1. CASE changed
  BY <1>1, DrawnInv DEF sync
<1>2. CASE ~changed
  <2>1. /\ str = <<>> /\ str' = <<>> /\ ran' = {}
        /\ UNCHANGED <<components_, modified_, moved, boundVars, queued, picture, viewerVars, covered>>
    BY <1>2 DEF sync
  <2>2. BoundByComponents' /\ FunctionsBound' /\ PicturesRegistered' /\ Bindings' /\ ClickRuns'
    BY <2>1, DrawingKeeps DEF pictureVars
  <2>3. BufTypeOK'
    BY <2>1 DEF BufInv, BufTypeOK, boundVars
  <2>. QED  BY <2>2, <2>3 DEF BufInv
<1>. QED  BY <1>1, <1>2

\* The invariant of an application that draws, of what it draws with, and of the functions
\* under the ids, of which the first under an id stays.
THEOREM ViewBufConsistent == BufSpec => []BufInv
<1>1. BufInv /\ [BufNext]_viewBufVars => BufInv'
  <2> SUFFICES ASSUME BufInv, [BufNext]_viewBufVars PROVE BufInv'
    OBVIOUS
  <2>1. CASE BufNext
    BY <2>1, WriteInv, AddInv, BufInitStepInv, SyncInv, TransferInv, LookInv, ClickInv, RunInv
       DEF BufNext
  <2>2. CASE UNCHANGED viewBufVars
    <3>1. UNCHANGED <<str, components_, modified_, moved, queued_funcs, functions, bound, field, values,
                      bound_alike, shown, call, entered, ran, queued, picture, covered>>
      BY <2>2 DEF viewBufVars, bufVars, boundVars, pictureVars, viewerVars
    <3>2. BufTypeOK' /\ BoundByComponents' /\ FunctionsBound'
      BY <3>1 DEF BufInv, BufTypeOK, BoundByComponents, FunctionsBound
    <3>3. PicturesRegistered'
      BY <3>1 DEF BufInv, PicturesRegistered, Clickable
    <3>4. Bindings' /\ ClickRuns'
      BY <3>1 DEF BufInv, Bindings, ClickRuns
    <3>. QED  BY <3>2, <3>3, <3>4 DEF BufInv
  <2>. QED  BY <2>1, <2>2
<1>. QED  BY <1>1, BufInitInv, PTL DEF BufSpec

\* A click runs what the viewer saw where nothing else can be stored under the id, and an
\* input reaches the InputRef of the application, whichever was bound first.
THEOREM EventsReachElements == BufSpec => []EventsReach
<1>1. BufInv => EventsReach
  <2> SUFFICES ASSUME BufInv PROVE InputKept
    BY DEF EventsReach, BufInv
  <2> SUFFICES ASSUME bound_alike, NEW i \in DOMAIN queued.components, i \in DOMAIN entered,
                      queued.components[i].act \in Ref, queued.components[i].id # NoId
               PROVE  values[field[queued.components[i].act]] = entered[i]
    BY DEF InputKept
  <2>1. queued.components[i] \in Element /\ IsIdOf(i, queued.components[i])
    BY DEF BufInv, PicturesRegistered, Clickable
  <2>2. Len(i) = 1
    BY <2>1, ElementIds DEF IsIdOf
  <2>. QED  BY <2>2 DEF BufInv, Bindings
<1>. QED  BY <1>1, ViewBufConsistent, PTL
=============================================================================
