---------------------------- MODULE MCApplication -----------------------------
(* Instances of ViewBuf, Poses, Robots, CApi, Funcs and Calls for TLC: what an       *)
(* application does with the objects of the library in its own process, and the      *)
(* calls from one to another.  They share no state: a behaviour moves one of them,    *)
(* which is chosen in the initial state, or one half of Funcs, registration or calls. *)
EXTENDS ViewBuf, Poses, Robots, CApi, Funcs, MCCalls

CONSTANTS f1, f2, f3, r1, r2, l1, l2, l3, t1, t2, a1, a2, a3, call1, call2,
          g1, g2, o1, k1

VARIABLE part

applicationVars ==
    <<part, viewBufVars, poseVars, robotVars, cApiVars, funcsVars, callsVars>>

\* Where no pose is moved, none is looked at; only what tells of functions gives them Args.
ApplicationInit ==
    /\ part \in {"view", "pose", "robot", "capi", "register", "call", "remote"}
    /\ BufInit /\ RobotInit /\ CApiInit /\ FuncsInit /\ CallsInit
    /\ part # "register" => \A a \in ArgObj : arg_objs[a].type = "none_"
    /\ IF part = "pose" THEN PoseInit
       ELSE pose = Default /\ meant = {} /\ held = FALSE /\ wroteLate = TRUE
ApplicationNext ==
    \/ /\ part = "view" /\ BufNext
       /\ UNCHANGED <<part, poseVars, robotVars, cApiVars, funcsVars, callsVars>>
    \/ /\ part = "pose" /\ PoseNext
       /\ UNCHANGED <<part, viewBufVars, robotVars, cApiVars, funcsVars, callsVars>>
    \/ /\ part = "robot" /\ RobotNext
       /\ UNCHANGED <<part, viewBufVars, poseVars, cApiVars, funcsVars, callsVars>>
    \/ /\ part = "capi" /\ CApiNext
       /\ UNCHANGED <<part, viewBufVars, poseVars, robotVars, funcsVars, callsVars>>
    \/ /\ UNCHANGED <<part, viewBufVars, poseVars, robotVars, cApiVars, callsVars>>
       /\ \/ part = "register" /\ UNCHANGED callingVars
          \/ part = "call" /\ UNCHANGED <<arg_objs, arg_msgs>>
       /\ FuncsNext
    \/ /\ part = "remote" /\ CallsNext
       /\ UNCHANGED <<part, viewBufVars, poseVars, robotVars, cApiVars, funcsVars>>
ApplicationSpec == ApplicationInit /\ [][ApplicationNext]_applicationVars

\* ViewBuf: a button with an id and two without, an input that is drawn with one or
\* another InputRef under its id, and a text with an id that ends its line.
C(type, id, text, act, val) ==
    [type |-> type, id |-> id, text |-> text, act |-> act, init |-> val]
Components ==
    {C("button", <<"b1">>, <<"1">>, f1, NoVal), C("button", NoId, <<"2">>, f2, NoVal),
     C("button", NoId, <<"3">>, f3, NoVal), C("input", <<"i1">>, <<"i">>, r1, "initial"),
     C("input", <<"i1">>, <<"i">>, r2, "initial"), C("text", <<"t">>, <<"a", NL>>, NoAct, NoVal)}
Texts == {<<"a">>, <<"a", NL, "b">>}

\* Poses: off the origin, where the default one is; the angles atan2 returns.
Points == {<<1, 0, 0>>}
Quarters == -1 .. 2
\* It is taken further only from a place on an axis.
OnAnAxis == Cardinality({i \in Axis : pose.pos[i] # 0}) <= 1

\* Robots: a base, an arm on it, a hand on the arm.  The second model is set at once.
LinkNames == [l \in Link |-> CASE l = l1 -> "base" [] l = l2 -> "arm" [] l = l3 -> "hand"]
Parent == [l \in Link |-> CASE l = l1 -> NoJoint [] l = l2 -> "base" [] l = l3 -> "arm"]
Arrangements == {<<l1, l2>>, <<l3, l1, l2>>}
OneIsSet == ~links_modified["m2"]

\* Funcs: the argument of every function is a number.
Types == [f \in Fn |-> "int_"]
============================================================================
