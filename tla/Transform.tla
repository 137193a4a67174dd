----------------------------- MODULE Transform -----------------------------
(* Rotations as client/src/transform.cc converts them, for the angles whose  *)
(* sines and cosines are integers: an angle is a number of quarter turns, a   *)
(* matrix three rows of -1, 0 and 1, and every conversion is exact.  A        *)
(* quaternion is [n |-> numerators, d |-> the square of their denominator].   *)
(*                                                                           *)
(* The first part is the reference: turns about one axis, composition, and    *)
(* the group they generate.                                                  *)
EXTENDS Integers, Sequences, FiniteSets

Axis == 1 .. 3   \* x, y, z: the index is the row or column of a matrix, less 1

Cos(q) == <<1, 0, -1, 0>>[(q % 4) + 1]
Sin(q) == <<0, 1, 0, -1>>[(q % 4) + 1]

\* Turn(a, q): the right-handed turn by q about the axis a.
Turn(a, q) ==
    LET c == Cos(q)  s == Sin(q)
    IN  CASE a = 1 -> <<<<1, 0, 0>>, <<0, c, -s>>, <<0, s, c>>>>
          [] a = 2 -> <<<<c, 0, s>>, <<0, 1, 0>>, <<-s, 0, c>>>>
          [] a = 3 -> <<<<c, -s, 0>>, <<s, c, 0>>, <<0, 0, 1>>>>

Dot(u, v) == u[1] * v[1] + u[2] * v[2] + u[3] * v[3]
Image(m, p) == <<Dot(m[1], p), Dot(m[2], p), Dot(m[3], p)>>
PlusPoint(p, q) == <<p[1] + q[1], p[2] + q[2], p[3] + q[3]>>
Transposed(m) == <<<<m[1][1], m[2][1], m[3][1]>>, <<m[1][2], m[2][2], m[3][2]>>,
                   <<m[1][3], m[2][3], m[3][3]>>>>
Compose(m, n) ==
    LET t == Transposed(n) IN <<Image(t, m[1]), Image(t, m[2]), Image(t, m[3])>>

\* Spin(rot, axis): the turns about the three axes of the sequence, the last first.
Spin(rot, axis) ==
    Compose(Turn(axis[1], rot[1]), Compose(Turn(axis[2], rot[2]), Turn(axis[3], rot[3])))

Identity == Turn(1, 0)

\* AxisSequence: the six of proper Euler angles and the six of Tait-Bryan angles.
X == 1
Y == 2
Z == 3
AxisSequence == {s \in [1 .. 3 -> Axis] : s[1] # s[2] /\ s[2] # s[3]}
ZYX == <<Z, Y, X>>

---------------------------------------------------------------------------
(* Rotation::eulerToMatrix *)
eulerToMatrix(rot, axis) ==
    LET c0 == Cos(rot[1])  c1 == Cos(rot[2])  c2 == Cos(rot[3])
        s0 == Sin(rot[1])  s1 == Sin(rot[2])  s2 == Sin(rot[3])
    IN  CASE axis = <<X, Z, X>> ->
               <<<<c1, -c2 * s1, s1 * s2>>,
                 <<c0 * s1, c0 * c1 * c2 - s0 * s2, -c2 * s0 - c0 * c1 * s2>>,
                 <<s0 * s1, c0 * s2 + c1 * c2 * s0, c0 * c2 - c1 * s0 * s2>>>>
          [] axis = <<X, Y, X>> ->
               <<<<c1, s1 * s2, c2 * s1>>,
                 <<s0 * s1, c0 * c2 - c1 * s0 * s2, -c0 * s2 - c1 * c2 * s0>>,
                 <<-c0 * s1, c2 * s0 + c0 * c1 * s2, c0 * c1 * c2 - s0 * s2>>>>
          [] axis = <<Y, X, Y>> ->
               <<<<c0 * c2 - c1 * s0 * s2, s0 * s1, c0 * s2 + c1 * c2 * s0>>,
                 <<s1 * s2, c1, -c2 * s1>>,
                 <<-c2 * s0 - c0 * c1 * s2, c0 * s1, c0 * c1 * c2 - s0 * s2>>>>
          [] axis = <<Y, Z, Y>> ->
               <<<<c0 * c1 * c2 - s0 * s2, -c0 * s1, c2 * s0 + c0 * c1 * s2>>,
                 <<c2 * s1, c1, s1 * s2>>,
                 <<-c0 * s2 - c1 * c2 * s0, s0 * s1, c0 * c2 - c1 * s0 * s2>>>>
          [] axis = <<Z, Y, Z>> ->
               <<<<c0 * c1 * c2 - s0 * s2, -c2 * s0 - c0 * c1 * s2, c0 * s1>>,
                 <<c0 * s2 + c1 * c2 * s0, c0 * c2 - c1 * s0 * s2, s0 * s1>>,
                 <<-c2 * s1, s1 * s2, c1>>>>
          [] axis = <<Z, X, Z>> ->
               <<<<c0 * c2 - c1 * s0 * s2, -c0 * s2 - c1 * c2 * s0, s0 * s1>>,
                 <<c2 * s0 + c0 * c1 * s2, c0 * c1 * c2 - s0 * s2, -c0 * s1>>,
                 <<s1 * s2, c2 * s1, c1>>>>
          [] axis = <<X, Z, Y>> ->
               <<<<c1 * c2, -s1, c1 * s2>>,
                 <<s0 * s2 + c0 * c2 * s1, c0 * c1, c0 * s1 * s2 - c2 * s0>>,
                 <<c2 * s0 * s1 - c0 * s2, c1 * s0, c0 * c2 + s0 * s1 * s2>>>>
          [] axis = <<X, Y, Z>> ->
               <<<<c1 * c2, -c1 * s2, s1>>,
                 <<c0 * s2 + c2 * s0 * s1, c0 * c2 - s0 * s1 * s2, -c1 * s0>>,
                 <<s0 * s2 - c0 * c2 * s1, c2 * s0 + c0 * s1 * s2, c0 * c1>>>>
          [] axis = <<Y, X, Z>> ->
               <<<<c0 * c2 + s0 * s1 * s2, c2 * s0 * s1 - c0 * s2, c1 * s0>>,
                 <<c1 * s2, c1 * c2, -s1>>,
                 <<c0 * s1 * s2 - c2 * s0, c0 * c2 * s1 + s0 * s2, c0 * c1>>>>
          [] axis = <<Y, Z, X>> ->
               <<<<c0 * c1, s0 * s2 - c0 * c2 * s1, c2 * s0 + c0 * s1 * s2>>,
                 <<s1, c1 * c2, -c1 * s2>>,
                 <<-c1 * s0, c0 * s2 + c2 * s0 * s1, c0 * c2 - s0 * s1 * s2>>>>
          [] axis = <<Z, Y, X>> ->
               <<<<c0 * c1, c0 * s1 * s2 - c2 * s0, s0 * s2 + c0 * c2 * s1>>,
                 <<c1 * s0, c0 * c2 + s0 * s1 * s2, c2 * s0 * s1 - c0 * s2>>,
                 <<-s1, c1 * s2, c1 * c2>>>>
          [] axis = <<Z, X, Y>> ->
               <<<<c0 * c2 - s0 * s1 * s2, -c1 * s0, c0 * s2 + c2 * s0 * s1>>,
                 <<c2 * s0 + c0 * s1 * s2, c0 * c1, s0 * s2 - c0 * c2 * s1>>,
                 <<-c1 * s2, s1, c1 * c2>>>>

\* std::atan2 of two integers of which one is 0: in (-2, 2], and 0 of (0, 0).
atan2(y, x) == IF y > 0 THEN 1 ELSE IF y < 0 THEN -1 ELSE IF x < 0 THEN 2 ELSE 0

\* Which entries of the matrix hold the products of sines and cosines: the sign, the
\* row and the column, counted from 0 as in the source.  sp is the cosine (proper) or
\* the sine (Tait-Bryan) of the second angle; sa, ca, sc and cc are the sine and the
\* cosine of the first and of the third angle times the other one of the second; scca
\* and ccca are those of the third angle times the cosine of the first, which is 1
\* where the second is singular.
ProperEntry(axis) ==
    CASE axis = <<X, Z, X>> -> [sp |-> <<1, 0, 0>>, sa |-> <<1, 2, 0>>, ca |-> <<1, 1, 0>>,
            sc |-> <<1, 0, 2>>, cc |-> <<-1, 0, 1>>, scca |-> <<1, 2, 1>>, ccca |-> <<1, 2, 2>>]
      [] axis = <<X, Y, X>> -> [sp |-> <<1, 0, 0>>, sa |-> <<1, 1, 0>>, ca |-> <<-1, 2, 0>>,
            sc |-> <<1, 0, 1>>, cc |-> <<1, 0, 2>>, scca |-> <<-1, 1, 2>>, ccca |-> <<1, 1, 1>>]
      [] axis = <<Y, X, Y>> -> [sp |-> <<1, 1, 1>>, sa |-> <<1, 0, 1>>, ca |-> <<1, 2, 1>>,
            sc |-> <<1, 1, 0>>, cc |-> <<-1, 1, 2>>, scca |-> <<1, 0, 2>>, ccca |-> <<1, 0, 0>>]
      [] axis = <<Y, Z, Y>> -> [sp |-> <<1, 1, 1>>, sa |-> <<1, 2, 1>>, ca |-> <<-1, 0, 1>>,
            sc |-> <<1, 1, 2>>, cc |-> <<1, 1, 0>>, scca |-> <<-1, 2, 0>>, ccca |-> <<1, 2, 2>>]
      [] axis = <<Z, Y, Z>> -> [sp |-> <<1, 2, 2>>, sa |-> <<1, 1, 2>>, ca |-> <<1, 0, 2>>,
            sc |-> <<1, 2, 1>>, cc |-> <<-1, 2, 0>>, scca |-> <<1, 1, 0>>, ccca |-> <<1, 1, 1>>]
      [] axis = <<Z, X, Z>> -> [sp |-> <<1, 2, 2>>, sa |-> <<1, 0, 2>>, ca |-> <<-1, 1, 2>>,
            sc |-> <<1, 2, 0>>, cc |-> <<1, 2, 1>>, scca |-> <<-1, 0, 1>>, ccca |-> <<1, 0, 0>>]

TaitBryanEntry(axis) ==
    CASE axis = <<X, Z, Y>> -> [sp |-> <<-1, 0, 1>>, sa |-> <<1, 2, 1>>, ca |-> <<1, 1, 1>>,
            sc |-> <<1, 0, 2>>, cc |-> <<1, 0, 0>>, scca |-> <<-1, 2, 0>>, ccca |-> <<1, 2, 2>>]
      [] axis = <<X, Y, Z>> -> [sp |-> <<1, 0, 2>>, sa |-> <<-1, 1, 2>>, ca |-> <<1, 2, 2>>,
            sc |-> <<-1, 0, 1>>, cc |-> <<1, 0, 0>>, scca |-> <<1, 1, 0>>, ccca |-> <<1, 1, 1>>]
      [] axis = <<Y, X, Z>> -> [sp |-> <<-1, 1, 2>>, sa |-> <<1, 0, 2>>, ca |-> <<1, 2, 2>>,
            sc |-> <<1, 1, 0>>, cc |-> <<1, 1, 1>>, scca |-> <<-1, 0, 1>>, ccca |-> <<1, 0, 0>>]
      [] axis = <<Y, Z, X>> -> [sp |-> <<1, 1, 0>>, sa |-> <<-1, 2, 0>>, ca |-> <<1, 0, 0>>,
            sc |-> <<-1, 1, 2>>, cc |-> <<1, 1, 1>>, scca |-> <<1, 2, 1>>, ccca |-> <<1, 2, 2>>]
      [] axis = <<Z, Y, X>> -> [sp |-> <<-1, 2, 0>>, sa |-> <<1, 1, 0>>, ca |-> <<1, 0, 0>>,
            sc |-> <<1, 2, 1>>, cc |-> <<1, 2, 2>>, scca |-> <<-1, 1, 2>>, ccca |-> <<1, 1, 1>>]
      [] axis = <<Z, X, Y>> -> [sp |-> <<1, 2, 1>>, sa |-> <<-1, 0, 1>>, ca |-> <<1, 1, 1>>,
            sc |-> <<-1, 2, 0>>, cc |-> <<1, 2, 2>>, scca |-> <<1, 0, 2>>, ccca |-> <<1, 0, 0>>]

At(rmat, entry) == entry[1] * rmat[entry[2] + 1][entry[3] + 1]

\* The singularity, where both products of the first or of the third angle vanish.
Singular(rmat, e) ==
    \/ At(rmat, e.sa) = 0 /\ At(rmat, e.ca) = 0
    \/ At(rmat, e.sc) = 0 /\ At(rmat, e.cc) = 0
ThirdAngle(rmat, e) == atan2(At(rmat, e.scca), At(rmat, e.ccca))
FirstAngle(rmat, e) == atan2(At(rmat, e.sa), At(rmat, e.ca))
OtherSecond(rmat, e) ==
    At(rmat, e.sa) * Sin(FirstAngle(rmat, e)) + At(rmat, e.ca) * Cos(FirstAngle(rmat, e))

matrixToProperEuler(rmat, axis) ==
    LET e == ProperEntry(axis) IN
    IF Singular(rmat, e)
    THEN <<0, IF At(rmat, e.sp) >= 0 THEN 0 ELSE -2, ThirdAngle(rmat, e)>>
    ELSE <<FirstAngle(rmat, e), atan2(OtherSecond(rmat, e), At(rmat, e.sp)),
           atan2(At(rmat, e.sc), At(rmat, e.cc))>>

matrixToTaitBryanEuler(rmat, axis) ==
    LET e == TaitBryanEntry(axis) IN
    IF Singular(rmat, e)
    THEN <<0, IF At(rmat, e.sp) >= 0 THEN 1 ELSE -1, ThirdAngle(rmat, e)>>
    ELSE <<FirstAngle(rmat, e), atan2(At(rmat, e.sp), OtherSecond(rmat, e)),
           atan2(At(rmat, e.sc), At(rmat, e.cc))>>

matrixToEuler(rmat, axis) ==
    IF axis[1] = axis[3] THEN matrixToProperEuler(rmat, axis)
                         ELSE matrixToTaitBryanEuler(rmat, axis)

---------------------------------------------------------------------------
(* Quaternions <<w, x, y, z>> *)

quaternionToMatrix(q) ==
    LET w == q.n[1]  x == q.n[2]  y == q.n[3]  z == q.n[4]
        per(v) == (2 * v) \div q.d
    IN  <<<<1 - per(y * y + z * z), per(x * y - z * w), per(x * z + y * w)>>,
          <<per(x * y + z * w), 1 - per(x * x + z * z), per(y * z - x * w)>>,
          <<per(x * z - y * w), per(y * z + x * w), 1 - per(x * x + y * y)>>>>

\* d is the square of s, and the numerator of the component that has no quotient is
\* a quarter of d.
matrixToQuaternion(m) ==
    LET r(i, j) == m[i + 1][j + 1]
        trace == r(0, 0) + r(1, 1) + r(2, 2)
        s2(t) == 4 * t
    IN  CASE trace > 0 ->
               [d |-> s2(trace + 1), n |-> <<trace + 1, r(2, 1) - r(1, 2),
                                             r(0, 2) - r(2, 0), r(1, 0) - r(0, 1)>>]
          [] trace <= 0 /\ r(0, 0) > r(1, 1) /\ r(0, 0) > r(2, 2) ->
               LET t == 1 + r(0, 0) - r(1, 1) - r(2, 2) IN
               [d |-> s2(t), n |-> <<r(2, 1) - r(1, 2), t,
                                     r(0, 1) + r(1, 0), r(0, 2) + r(2, 0)>>]
          [] trace <= 0 /\ ~(r(0, 0) > r(1, 1) /\ r(0, 0) > r(2, 2)) /\ r(1, 1) > r(2, 2) ->
               LET t == 1 + r(1, 1) - r(0, 0) - r(2, 2) IN
               [d |-> s2(t), n |-> <<r(0, 2) - r(2, 0), r(0, 1) + r(1, 0),
                                     t, r(1, 2) + r(2, 1)>>]
          [] OTHER ->
               LET t == 1 + r(2, 2) - r(0, 0) - r(1, 1) IN
               [d |-> s2(t), n |-> <<r(1, 0) - r(0, 1), r(0, 2) + r(2, 0),
                                     r(1, 2) + r(2, 1), t>>]

\* An angle about an axis is in twelfths of a turn here, as the thirds of a turn about
\* the diagonals need.  Cot is the cotangent of its half times the length of the axis,
\* for the axes and the angles of the group: about an edge or a coordinate axis half a
\* turn is 6 and a quarter 3, and about a diagonal a third is 4.
Cot(angle) == CASE angle \in {3, 4} -> 1 [] angle \in {8, 9} -> -1 [] OTHER -> 0
axisAngleToQuaternion(axis, angle) ==
    IF axis = <<0, 0, 0>> \/ angle = 0 THEN [n |-> <<1, 0, 0, 0>>, d |-> 1]
    ELSE LET w == Cot(angle)
             longest == CHOOSE l \in {axis[i] : i \in Axis} \cup {-axis[i] : i \in Axis} :
                            \A i \in Axis : axis[i] <= l /\ -axis[i] <= l
             x == axis[1] \div longest
             y == axis[2] \div longest
             z == axis[3] \div longest
         IN  [n |-> <<w, x, y, z>>, d |-> w * w + x * x + y * y + z * z]

\* 2 * acos(w), of the square of w and its sign; the axis is what is left of the
\* quaternion, as long as the sine of half the angle makes it.
quaternionToAxisAngle(q) ==
    LET w2 == (4 * q.n[1] * q.n[1]) \div q.d
        half == CASE w2 = 4 -> 0 [] w2 = 2 -> 3 [] w2 = 1 -> 4 [] w2 = 0 -> 6
    IN  [axis |-> <<q.n[2], q.n[3], q.n[4]>>,
         angle |-> IF q.n[1] >= 0 THEN half ELSE 12 - half]

---------------------------------------------------------------------------
(* appliedTo and inversed, of points and of rotations.  As in the source, a   *)
(* rotation is [rot, rmat], each the set of the value that is there, if any:  *)
(* rot the ZYX angles, rmat the matrix.  A Transform has a pos, too.          *)

rotMatrix(r) == IF r.rmat # {} THEN CHOOSE m \in r.rmat : TRUE
                               ELSE eulerToMatrix(CHOOSE a \in r.rot : TRUE, ZYX)
rotZYX(r) == IF r.rot # {} THEN CHOOSE a \in r.rot : TRUE
                           ELSE matrixToEuler(CHOOSE m \in r.rmat : TRUE, ZYX)
rotEuler(r, axis) == IF axis = ZYX THEN rotZYX(r) ELSE matrixToEuler(rotMatrix(r), axis)

fromEuler(pos, rot, axis) ==
    [pos |-> pos, rot |-> IF axis = ZYX THEN {rot} ELSE {},
     rmat |-> IF axis = ZYX THEN {} ELSE {eulerToMatrix(rot, axis)}]
fromMatrix(pos, rmat) == [pos |-> pos, rot |-> {}, rmat |-> {rmat}]

appliedTo(t, target) ==
    fromMatrix(PlusPoint(Image(rotMatrix(t), target.pos), t.pos),
               Compose(rotMatrix(t), rotMatrix(target)))

inversed(t) ==
    LET m == Transposed(rotMatrix(t))
    IN  fromMatrix(<<-Dot(m[1], t.pos), -Dot(m[2], t.pos), -Dot(m[3], t.pos)>>, m)
============================================================================
