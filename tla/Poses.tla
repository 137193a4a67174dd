------------------------------- MODULE Poses -------------------------------
(* A Transform of an application (client/include/webcface/transform.h): it is *)
(* made from one of the representations of a rotation, read as any of them,   *)
(* which caches what the reading computed, changed through the reference that *)
(* rot() returns, combined with others, and drawn: a component of a canvas or  *)
(* a joint of a robot sends its position and its ZYX angles, of which the      *)
(* receiver makes a Transform again.                                          *)
EXTENDS Transform

CONSTANTS
    Point,        \* positions
    Quarter,      \* angles, in quarter turns
    MaxCoordinate \* bound: how far from the origin a pose may get

VARIABLES
    pose,    \* the Transform
    \* What its representations are to agree on: the position and the matrix.
    meant,
    held,    \* the application has kept the reference that rot() returned
    \* The application has written through the reference after the matrix was computed
    \* anew: what the header's comment on rot_ and rmat_ rules out.
    wroteLate

poseVars == <<pose, meant, held, wroteLate>>

\* Transform()
Default == [pos |-> <<0, 0, 0>>, rot |-> {<<0, 0, 0>>}, rmat |-> {Identity}]

\* Bound: one Transform is made, where the default one was.
Made(t, mat) ==
    /\ pose = Default
    /\ pose' = t
    /\ meant' = [pos |-> t.pos, mat |-> mat]
    /\ held' = FALSE /\ wroteLate' = FALSE

Rotations == {Spin(rot, ZYX) : rot \in [Axis -> 0 .. 3]}

\* The quaternions of the group, and the rotation v -> q v q* of one, by Hamilton's product.
Quaternions ==
    {q \in [n : [1 .. 4 -> -1 .. 1], d : {1, 2, 4}] :
        q.n[1] * q.n[1] + q.n[2] * q.n[2] + q.n[3] * q.n[3] + q.n[4] * q.n[4] = q.d}
Product(a, b) ==
    <<a[1] * b[1] - a[2] * b[2] - a[3] * b[3] - a[4] * b[4],
      a[1] * b[2] + a[2] * b[1] + a[3] * b[4] - a[4] * b[3],
      a[1] * b[3] - a[2] * b[4] + a[3] * b[1] + a[4] * b[2],
      a[1] * b[4] + a[2] * b[3] - a[3] * b[2] + a[4] * b[1]>>
Conjugation(q) ==
    LET moved(v) == Product(Product(q.n, v), <<q.n[1], -q.n[2], -q.n[3], -q.n[4]>>)
        column(v) == LET p == moved(v) IN <<p[2] \div q.d, p[3] \div q.d, p[4] \div q.d>>
    IN  Transposed(<<column(<<0, 1, 0, 0>>), column(<<0, 0, 1, 0>>), column(<<0, 0, 0, 1>>)>>)

---------------------------------------------------------------------------
(* The ways to make one *)

rotFromEuler(pos, rot, axis) == Made(fromEuler(pos, rot, axis), Spin(rot, axis))
rotFromMatrix(pos, mat) == Made(fromMatrix(pos, mat), mat)
rotFromQuat(pos, q) == Made(fromMatrix(pos, quaternionToMatrix(q)), Conjugation(q))
rotFromAxisAngle(pos, q) ==
    LET half == quaternionToAxisAngle(q)
    IN  Made(fromMatrix(pos, quaternionToMatrix(axisAngleToQuaternion(half.axis, half.angle))),
             Conjugation(q))

PoseInit ==
    /\ pose = Default
    /\ meant = [pos |-> <<0, 0, 0>>, mat |-> Identity]
    /\ held = FALSE /\ wroteLate = FALSE

---------------------------------------------------------------------------
(* What is done with it *)

\* Reading computes the representation that is not there and keeps it.
WithAngles(t) == [t EXCEPT !.rot = {rotZYX(t)}]
WithMatrix(t) == [t EXCEPT !.rmat = {rotMatrix(t)}]
readEuler == pose' = WithAngles(pose) /\ UNCHANGED <<meant, held, wroteLate>>
readMatrix == pose' = WithMatrix(pose) /\ UNCHANGED <<meant, held, wroteLate>>

\* A defect that the properties exclude: the matrix is not dropped.
setRotKeepsMatrix(index, q, keep) ==
    LET rot == [rotZYX(pose) EXCEPT ![index] = q]
    IN  /\ pose' = [pose EXCEPT !.rot = {rot}]
        /\ meant' = [meant EXCEPT !.mat = Spin(rot, ZYX)]
        /\ held' = keep /\ UNCHANGED wroteLate

\* rot(index) = q: the angles are computed, the matrix is dropped, and then the angle
\* is written.  The application may keep the reference.
setRot(index, q, keep) ==
    LET rot == [rotZYX(pose) EXCEPT ![index] = q]
    IN  /\ pose' = [pose EXCEPT !.rot = {rot}, !.rmat = {}]
        /\ meant' = [meant EXCEPT !.mat = Spin(rot, ZYX)]
        /\ held' = keep /\ UNCHANGED wroteLate
writeHeld(index, q) ==
    LET rot == [rotZYX(pose) EXCEPT ![index] = q]
    IN  /\ held
        /\ pose' = [pose EXCEPT !.rot = {rot}]
        /\ meant' = [meant EXCEPT !.mat = Spin(rot, ZYX)]
        /\ wroteLate' = (wroteLate \/ pose.rmat # {})
        /\ UNCHANGED held

\* pose *= target, pose = target * pose, and pose = pose.inversed(): the operands
\* keep their caches and the result is a new object.
multiply(target) ==
    LET t == appliedTo(pose, target)
    IN  /\ ~wroteLate
        /\ pose' = t
        /\ meant' = [pos |-> PlusPoint(Image(meant.mat, target.pos), meant.pos),
                     mat |-> Compose(meant.mat, rotMatrix(target))]
        /\ held' = FALSE /\ UNCHANGED wroteLate
applyTo(t) ==
    /\ ~wroteLate
    /\ pose' = appliedTo(t, pose)
    /\ meant' = [pos |-> PlusPoint(Image(rotMatrix(t), meant.pos), t.pos),
                 mat |-> Compose(rotMatrix(t), meant.mat)]
    /\ held' = FALSE /\ UNCHANGED wroteLate
\* The transform that takes what this one moves back to where it was.
invert ==
    /\ ~wroteLate
    /\ pose' = inversed(pose)
    /\ \E m \in Rotations :
        /\ Compose(m, meant.mat) = Identity
        /\ \E p \in [Axis -> -MaxCoordinate .. MaxCoordinate] :
            /\ PlusPoint(Image(m, meant.pos), p) = <<0, 0, 0>>
            /\ meant' = [pos |-> p, mat |-> m]
    /\ held' = FALSE /\ UNCHANGED wroteLate

\* TemporalCanvas3DComponent::origin() or the constructor of RobotLink, the message,
\* and Canvas3DComponent::origin() or RobotJoint::origin() of who receives it.
originSent(t) == [origin_pos |-> t.pos, origin_rot |-> rotZYX(t)]
originReceived(msg) == fromEuler(msg.origin_pos, msg.origin_rot, ZYX)
draw ==
    /\ pose' = originReceived(originSent(pose))
    /\ held' = FALSE /\ wroteLate' = FALSE
    /\ UNCHANGED meant

Steps == {fromEuler(p, <<1, 0, 0>>, ZYX) : p \in Point} \cup
         {fromEuler(<<0, 0, 0>>, <<1, 0, 0>>, <<X, Y, X>>)}

Near(t) == \A i \in Axis : t.pos[i] \in -MaxCoordinate .. MaxCoordinate

PoseNext ==
    \/ \E p \in Point, rot \in [Axis -> Quarter], axis \in AxisSequence :
            rotFromEuler(p, rot, axis)
    \/ \E p \in Point, m \in Rotations : rotFromMatrix(p, m)
    \/ \E p \in Point, q \in Quaternions : rotFromQuat(p, q)
    \/ \E p \in Point, q \in Quaternions : rotFromAxisAngle(p, q)
    \/ readEuler
    \/ readMatrix
    \/ \E index \in Axis, q \in Quarter, keep \in BOOLEAN : setRot(index, q, keep)
    \/ \E index \in Axis, q \in Quarter : writeHeld(index, q)
    \/ \E t \in Steps : multiply(t) /\ Near(pose')
    \/ \E t \in Steps : applyTo(t) /\ Near(pose')
    \/ invert
    \/ draw

PoseSpec == PoseInit /\ [][PoseNext]_poseVars

---------------------------------------------------------------------------
(* Properties *)

\* However a pose was made, read, changed, combined and sent, everything it can be
\* read as stands for the same rotation: both of the values it keeps, the angles of
\* every axis sequence, at their singularities too, the quaternion, and the axis and
\* the angle; and it is where it is meant to be.  (rot_ and rmat_, transform.h; not
\* of a pose that was written through an old reference.)
PoseKept ==
    ~wroteLate =>
        /\ pose.pos = meant.pos
        /\ \A m \in pose.rmat : m = meant.mat
        /\ \A rot \in pose.rot : Spin(rot, ZYX) = meant.mat
        /\ \A axis \in AxisSequence : Spin(rotEuler(pose, axis), axis) = meant.mat
        /\ LET q == matrixToQuaternion(rotMatrix(pose))
               turn == quaternionToAxisAngle(q)
           IN  /\ Conjugation(q) = meant.mat
               /\ Conjugation(axisAngleToQuaternion(turn.axis, turn.angle)) = meant.mat
============================================================================
