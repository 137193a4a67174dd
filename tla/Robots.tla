------------------------------- MODULE Robots -------------------------------
(* Robot models (client/src/robot_model.cc, client/src/robot_link.cc): the     *)
(* application collects links, whose joints name their parent; sync() turns    *)
(* the names into indices, the message carries them, and the receiver turns     *)
(* them into links again.  A RobotLink is a shared object: the model that is     *)
(* stored, waiting to be sent, refers to the same links as the application's      *)
(* other models do.                                                              *)
EXTENDS Integers, FiniteSets, SequencesExt

CONSTANTS
    Link,        \* the RobotLink objects of the application
    LinkName,    \* [Link -> names]
    ParentName,  \* [Link -> names]: of the joint; NoJoint of a fixedAbsolute one
    NoJoint,
    Model,       \* fields
    Arrangement, \* what a model is set to: sequences of links
    MaxLinks     \* bound: how many links a model gets

ASSUME RobotAssumption == Arrangement \subseteq Seq(Link)

VARIABLES
    joint_parent,    \* of every RobotLinkData: the index of the parent, or -1
    links_,     \* DataSetBuffer<RobotLink> of every model
    links_modified,
    robot_model_store, \* data_send: {} or {the links}
    model,           \* the model that has arrived last
    resolved         \* observer: what the parent of a link was, whenever it was locked

robotVars == <<joint_parent, links_, links_modified, robot_model_store, model,
               resolved>>

RobotInit ==
    /\ joint_parent = [l \in Link |-> -1]
    /\ links_ = [m \in Model |-> <<>>]
    /\ links_modified = [m \in Model |-> FALSE]
    /\ robot_model_store = [m \in Model |-> {}]
    /\ model = [links |-> <<>>, data |-> <<>>]
    /\ resolved = [l \in Link |-> {}]

---------------------------------------------------------------------------
(* The application *)

initModel(m) ==
    /\ links_' = [links_ EXCEPT ![m] = <<>>]
    /\ links_modified' = [links_modified EXCEPT ![m] = TRUE]
    /\ UNCHANGED <<joint_parent, robot_model_store, model, resolved>>

\* model << link: the link is shared, not copied.
addLink(m, l) ==
    /\ Len(links_[m]) < MaxLinks
    /\ links_' = [links_ EXCEPT ![m] = Append(@, l)]
    /\ links_modified' = [links_modified EXCEPT ![m] = TRUE]
    /\ UNCHANGED <<joint_parent, robot_model_store, model, resolved>>

\* Before which of the links the first one with the name of l's parent is, if any.
Parents(ls, k) == {j \in 1 .. k - 1 : LinkName[ls[j]] = ParentName[ls[k]]}

\* A defect that the properties exclude: the place of the parent, not its index.
LockJointsFromOne(ls) ==
    [l \in Link |->
        LET found == {k \in DOMAIN ls : ls[k] = l /\ Parents(ls, k) # {}}
        IN  IF found = {} THEN joint_parent[l]
            ELSE Min(Parents(ls, Max(found)))]

\* RobotLinkData::lockJoints, of every link in order: what has no parent among the
\* links before keeps the index it has.  A link that is there twice is locked twice.
LockJoints(ls) ==
    [l \in Link |->
        LET found == {k \in DOMAIN ls : ls[k] = l /\ Parents(ls, k) # {}}
        IN  IF found = {} THEN joint_parent[l]
            ELSE Min(Parents(ls, Max(found))) - 1]

\* What lockJoints should find: -1 of a link without a parent among those before.
ParentAt(ls, k) == IF Parents(ls, k) = {} THEN -1 ELSE Min(Parents(ls, k)) - 1

\* DataSetBuffer<RobotLink>::onSync
onSyncModel(m, ls) ==
    /\ joint_parent' = LockJoints(ls)
    /\ robot_model_store' = [robot_model_store EXCEPT ![m] = {ls}]
    /\ links_modified' = [links_modified EXCEPT ![m] = FALSE]
    /\ resolved' = [l \in Link |-> resolved[l] \cup
                        {ParentAt(ls, k) : k \in {j \in DOMAIN ls : ls[j] = l}}]
    /\ UNCHANGED model

syncModel(m) ==
    /\ links_modified[m]
    /\ onSyncModel(m, links_[m])
    /\ UNCHANGED links_
setModel(m, ls) ==
    /\ links_' = [links_ EXCEPT ![m] = ls]
    /\ onSyncModel(m, ls)

---------------------------------------------------------------------------
(* Client::sync, the server's relay, and the receiver *)

\* What is packed is what the shared links say when they are packed.
Packed(l) == [name |-> LinkName[l], parent |-> joint_parent[l]]
ModelMessage(m) ==
    LET ls == CHOOSE x \in robot_model_store[m] : TRUE
    IN  [data |-> [k \in DOMAIN ls |-> Packed(ls[k])], links |-> ls]

\* RobotLinkData(data, links): the parent is one of the links before, or there is none.
\* parent is parent_ptr here, the place of the link in the model, or 0.
Received(data) ==
    [k \in DOMAIN data |->
        LET known == 0 <= data[k].parent /\ data[k].parent < k - 1
        IN  [name |-> data[k].name,
             parent_name |-> IF known THEN data[data[k].parent + 1].name ELSE NoJoint,
             parent |-> IF known THEN data[k].parent + 1 ELSE 0]]

\* All models that wait are packed; the messages do not change on their way (Links), and
\* the receiver reads any one of them.
syncData ==
    /\ \E m \in Model :
        /\ robot_model_store[m] # {}
        /\ model' = [links |-> ModelMessage(m).links, data |-> Received(ModelMessage(m).data)]
    /\ robot_model_store' = [m \in Model |-> {}]
    /\ UNCHANGED <<joint_parent, links_, links_modified, resolved>>

RobotNext ==
    \/ \E m \in Model : initModel(m) \/ syncModel(m)
    \/ \E m \in Model, l \in Link : addLink(m, l)
    \/ \E m \in Model, ls \in Arrangement : setModel(m, ls)
    \/ syncData

RobotSpec == RobotInit /\ [][RobotNext]_robotVars

---------------------------------------------------------------------------
(* Properties *)

\* A model that arrives has the links that were put into it, in order, and every link
\* hangs on the first link before it that has the name of its parent, or on none: also
\* if other models were locked between sync() and sending.  (Not of a link that was
\* ever locked at two places where its parent has different indices: it is one object,
\* an index that is found replaces that of all the models that have not been sent, and
\* one that is not found leaves the old one.)
RobotArrives ==
    LET ls == model.links
        data == model.data
    IN  /\ [k \in DOMAIN data |-> data[k].name] = [k \in DOMAIN ls |-> LinkName[ls[k]]]
        /\ \A k \in DOMAIN ls : Cardinality(resolved[ls[k]]) = 1 =>
            /\ data[k].parent = ParentAt(ls, k) + 1
            /\ data[k].parent # 0 => data[k].parent_name = ParentName[ls[k]]

---------------------------------------------------------------------------
(* The inductive strengthening of RobotArrives.                            *)

RobotTypeOK ==
    /\ joint_parent \in [Link -> Int]
    /\ links_ \in [Model -> Seq(Link)] /\ links_modified \in [Model -> BOOLEAN]
    /\ DOMAIN robot_model_store = Model
    /\ \A m \in Model : robot_model_store[m] \subseteq Seq(Link)
    /\ model.links \in Seq(Link) /\ DOMAIN model.data = DOMAIN model.links
    /\ DOMAIN resolved = Link /\ \A l \in Link : IsFiniteSet(resolved[l])

\* The links of a model have been locked in it.
JointsLocked(ls) == \A k \in DOMAIN ls : ParentAt(ls, k) \in resolved[ls[k]]
\* A link has the index that was found for it whenever it was locked, if it was one.
IndexFound ==
    \A l \in Link : \A x \in resolved[l] \cup {-1} :
        resolved[l] \subseteq {x} => joint_parent[l] = x

RobotInv ==
    /\ RobotTypeOK /\ IndexFound /\ JointsLocked(model.links)
    /\ \A m \in Model : \A ls \in robot_model_store[m] : JointsLocked(ls)
    /\ RobotArrives
============================================================================
