------------------------------- MODULE Packing -------------------------------
(* The encoding of messages (common/internal/message/pack.h, message.cc): numbers     *)
(* are packed in the smallest form that holds them, a batch of messages is an array   *)
(* of kinds and objects, and unpack() goes through what another version may have      *)
(* sent, which may have kinds that this one does not know and objects that it cannot  *)
(* read.  The forms are those of msgpack.                                             *)
(*                                                                                   *)
(* A number is counted in halves.  The widths are small: an integer of 64 bits has    *)
(* WordBits here, and a double, which does not hold all of those, DoubleBits.         *)
EXTENDS Integers, SequencesExt

CONSTANTS WordBits, DoubleBits, FloatBits, \* the bits of uint64_t, double and float
          MaxDouble,      \* all numbers are less than so many halves
          Double,         \* the numbers that are packed
          KnownKind,      \* the kinds of message that the receiver knows
          OtherKind,      \*   and that it does not
          Text,           \* texts, as numbers, 0 the empty one
          Layout,         \* [KnownKind -> what is in a message], "none" or
                          \*   "numbers", "args" or "unreadable"
          MaxPacked       \* bound: the messages

ASSUME WidthAssumption == FloatBits < DoubleBits /\ DoubleBits < WordBits

VARIABLES
    packed,     \* history: what was given to pack()
    buffer,     \* the stringstream of messages that are not sent
    buffer_len, \* len: the objects in it
    strings,    \* the strings that packDone() returned and that have not arrivals
    batch_lens, \* history: their numbers of messages
    unpacked,   \* what unpack() has returned
    arrivals     \* history: the number of messages that have

packingVars == <<packed, buffer, buffer_len, strings, batch_lens, unpacked, arrivals>>

----------------------------------------------------------------------------
(* Numbers.                                                                  *)

\* Not a number; the other texts and truth values are numbers too here.
NaN == MaxDouble + 1
Empty == 0
Word == 2 ^ WordBits
Abs(x) == IF x < 0 THEN -x ELSE x
\* What a floating point number of so many bits holds, in halves.
Holds(bits, x) == \E e \in 0 .. WordBits + 2 : x % 2 ^ e = 0 /\ Abs(x) < 2 ^ (bits + e)
Doubles == {x \in -MaxDouble .. MaxDouble : Holds(DoubleBits, x)}
ASSUME DoubleAssumption == Double \subseteq Doubles

\* static_cast<double> of an integer: the nearest that there is, of two the even one.
Distance(x, d) == Abs(x - d)
NearestDouble ==
    [n \in -Word .. Word |->
        LET near == {d \in Doubles : \A o \in Doubles : Distance(2 * n, d) <= Distance(2 * n, o)}
        IN CHOOSE d \in near : Cardinality(near) = 1 \/ Holds(DoubleBits - 1, d)]
ToDouble(n) == NearestDouble[n]
\* static_cast of a double to an integer, which is undefined for one that is out of range.
Truncated(x) == IF x < 0 THEN -(-x \div 2) ELSE x \div 2
ToUint(x) == IF Truncated(x) < Word THEN {Truncated(x)} ELSE 0 .. Word - 1
\* static_cast of an unsigned integer to a signed one.
ToInt(n) == IF n >= Word \div 2 THEN n - Word ELSE n

Form(type, via) == [type |-> type, via |-> via]
IntForm(n) == Form(IF n >= 0 THEN "POSITIVE_INTEGER" ELSE "NEGATIVE_INTEGER", n)

\* pack<double>: the forms that it may have.
PackFloat(v) == {Form(IF Holds(FloatBits, v) THEN "FLOAT32" ELSE "FLOAT64", v)}
PackDouble(v) ==
    IF v = NaN THEN {Form("FLOAT64", v)}
    ELSE IF v >= 0 /\ v <= ToDouble(Word - 1)
    THEN UNION {IF v = ToDouble(n) THEN {IntForm(n)} ELSE PackFloat(v) : n \in ToUint(v)}
    ELSE IF v < 0 /\ v >= ToDouble(-Word \div 2) /\ v = ToDouble(Truncated(v))
    THEN {IntForm(Truncated(v))}
    ELSE PackFloat(v)

\* as<double> of msgpack.
AsDouble(form) ==
    IF form.type \in {"POSITIVE_INTEGER", "NEGATIVE_INTEGER"} THEN ToDouble(form.via) ELSE form.via

\* MutableNumVector: an array, of one number or more.
PackNumbers(v) ==
    {Form("ARRAY", forms) : forms \in {s \in [DOMAIN v -> UNION {PackDouble(v[i]) : i \in DOMAIN v}] :
                                           \A i \in DOMAIN v : s[i] \in PackDouble(v[i])}}
ConvertNumbers(form) == [i \in DOMAIN form.via |-> AsDouble(form.via[i])]

\* ValAdaptor.
Val(type, v) == [type |-> type, val |-> v]
PackVal(v) ==
    CASE v.type = "int_" -> {IntForm(v.val)}
      [] v.type = "float_" -> PackDouble(v.val)
      [] v.type = "bool_" -> {Form("BOOLEAN", v.val)}
      [] v.type \in {"string_", "none_"} -> {Form("STR", v.val)}
ConvertVal(form) ==
    CASE form.type \in {"FLOAT32", "FLOAT64"} -> Val("float_", form.via)
      [] form.type = "POSITIVE_INTEGER" -> Val("int_", ToInt(form.via))
      [] form.type = "NEGATIVE_INTEGER" -> Val("int_", form.via)
      [] form.type = "BOOLEAN" -> Val("bool_", form.via)
      [] form.type = "STR" -> Val("string_", form.via)

\* ValAdaptorVector: one value is packed without an array.
PackVals(vec) ==
    IF Len(vec) = 1 THEN PackVal(vec[1])
    ELSE {Form("ARRAY", forms) : forms \in {s \in [DOMAIN vec -> UNION {PackVal(vec[i]) : i \in DOMAIN vec}] :
                                                \A i \in DOMAIN vec : s[i] \in PackVal(vec[i])}}
ConvertVals(form) ==
    IF form.type = "ARRAY" THEN [i \in DOMAIN form.via |-> ConvertVal(form.via[i])]
    ELSE <<ConvertVal(form)>>
\* ValAdaptorVector::get(): one value, an empty one if there is none, ValTypeMismatch if there
\* are more.
NoneVal == Val("none_", Empty)
GetOne(vec) ==
    IF Len(vec) = 0 THEN NoneVal ELSE IF Len(vec) = 1 THEN vec[1] ELSE Val("ValTypeMismatch", Empty)

----------------------------------------------------------------------------
(* Messages.                                                                 *)

Numbers == {NaN} \cup Double
Vals ==
    {Val("int_", n) : n \in -(Word \div 2) .. Word \div 2 - 1} \cup {Val("float_", x) : x \in Numbers}
        \cup {Val("bool_", b) : b \in {0, 1}} \cup {Val("string_", s) : s \in Text}
Contents(body) ==
    CASE body = "numbers" -> {<<v>> : v \in Numbers} \cup {<<v, NaN, 1>> : v \in Double}
      [] body = "args" -> {<<>>} \cup {<<v>> : v \in Vals}
             \cup {<<Val("float_", v), Val("bool_", 1)>> : v \in Double}
      [] OTHER -> {<<>>}
Message(kind, body, data) == [kind |-> kind, body |-> body, data |-> data]

\* The object of a message.
Objects(msg) ==
    CASE msg.body = "numbers" -> PackNumbers(msg.data)
      [] msg.body = "args" -> PackVals(msg.data)
      [] msg.body = "none" -> {Form("MAP", <<>>)}
      [] msg.body = "unreadable" -> {Form("NIL", <<>>)}

\* as<type>, where the object is one that the kind has.
IsReadable(kind, object) == object.type # "NIL"
Converted(kind, object) ==
    CASE Layout[kind] = "numbers" -> ConvertNumbers(object)
      [] Layout[kind] = "args" -> ConvertVals(object)
      [] OTHER -> <<>>

PackingInit ==
    /\ packed = <<>> /\ buffer = <<>> /\ buffer_len = 0 /\ strings = <<>>
    /\ batch_lens = <<>> /\ unpacked = <<>> /\ arrivals = 0

\* pack(): the kind and the object are added to the buffer.
pack(msg) ==
    /\ Len(packed) < MaxPacked
    /\ packed' = Append(packed, msg)
    /\ \E object \in Objects(msg) :
           buffer' = buffer \o <<Form("POSITIVE_INTEGER", msg.kind), object>>
    /\ buffer_len' = buffer_len + 2
    /\ UNCHANGED <<strings, batch_lens, unpacked, arrivals>>

\* packDone(), in MemberData::send(), and the buffer is cleared.
packDone ==
    /\ buffer_len > 0
    /\ strings' = Append(strings, [type |-> "ARRAY", size |-> buffer_len, ptr |-> buffer])
    /\ batch_lens' = Append(batch_lens, buffer_len \div 2)
    /\ buffer' = <<>> /\ buffer_len' = 0
    /\ UNCHANGED <<packed, unpacked, arrivals>>

\* The kind and what was read of a pair of objects: nothing when the kind is not known.
Pair(kind, object) ==
    [kind |-> kind, obj |-> IF kind \in KnownKind THEN <<Converted(kind, object)>> ELSE <<>>]
Kind(obj, i) == obj.ptr[2 * i - 1].via
Object(obj, i) == obj.ptr[2 * i]
IsSkipped(obj, i) == Kind(obj, i) \in KnownKind /\ ~IsReadable(Kind(obj, i), Object(obj, i))
IsWellFormed(obj) ==
    /\ obj.type = "ARRAY" /\ obj.size = Len(obj.ptr) /\ obj.size % 2 = 0
    /\ \A i \in 1 .. obj.size \div 2 : obj.ptr[2 * i - 1].type = "POSITIVE_INTEGER"

\* A defect that the properties exclude: an object that cannot be read ends the batch.
UnpackStops(obj) ==
    LET n == obj.size \div 2
        bad == {i \in 1 .. n : IsSkipped(obj, i)}
        k == IF bad = {} THEN n ELSE (CHOOSE i \in bad : \A j \in bad : i <= j) - 1
    IN IF IsWellFormed(obj) THEN [i \in 1 .. k |-> Pair(Kind(obj, i), Object(obj, i))] ELSE <<>>
\* unpack(): nothing of an array that is not one of kinds and objects; of an object of a known
\* kind that cannot be read, only an error is logged.
Unpack(obj) ==
    LET read == SelectSeq([i \in 1 .. obj.size \div 2 |-> i], LAMBDA i : ~IsSkipped(obj, i)) IN
    IF IsWellFormed(obj)
    THEN [i \in DOMAIN read |-> Pair(Kind(obj, read[i]), Object(obj, read[i]))]
    ELSE <<>>

receive ==
    /\ strings # <<>>
    /\ strings' = Tail(strings)
    /\ unpacked' = unpacked \o Unpack(Head(strings))
    /\ arrivals' = arrivals + Head(batch_lens)
    /\ batch_lens' = Tail(batch_lens)
    /\ UNCHANGED <<packed, buffer, buffer_len>>

PackingNext ==
    \/ \E k \in KnownKind : \E d \in Contents(Layout[k]) : pack(Message(k, Layout[k], d))
    \/ \E k \in KnownKind : pack(Message(k, "unreadable", <<>>))
    \/ \E k \in OtherKind : pack(Message(k, "none", <<>>))
    \/ packDone
    \/ receive
PackingSpec == PackingInit /\ [][PackingNext]_packingVars

----------------------------------------------------------------------------
(* Properties.                                                               *)

\* A number is what it was, with the type of an integer when it is whole.
\* One of 2^63 or more comes as the negative integer with the same bits, which is known.
SameNumber(v, w) ==
    \/ v = w
    \/ /\ v.type = "float_" /\ w.type = "int_" /\ v.val # NaN
       /\ IF v.val >= Word THEN w.val < 0 ELSE v.val = ToDouble(w.val)
SameData(msg, data) ==
    CASE msg.body = "args" ->
             /\ Len(data) = Len(msg.data)
             /\ \A i \in DOMAIN data : SameNumber(msg.data[i], data[i])
             /\ GetOne(data).type \in {"none_", "ValTypeMismatch"} <=> Len(data) # 1
      [] OTHER -> data = msg.data

\* Of a batch that also has kinds that the receiver does not know and objects that it
\* cannot read (of another version), every other message arrives, in its order and with
\* the numbers that were packed, whichever of the forms of msgpack they took.
BatchesRead ==
    LET due == SelectSeq(SubSeq(packed, 1, arrivals), LAMBDA m : m.body # "unreadable") IN
    /\ Len(unpacked) = Len(due)
    /\ \A i \in DOMAIN due :
           /\ unpacked[i].kind = due[i].kind
           /\ IF due[i].kind \in OtherKind THEN unpacked[i].obj = <<>>
              ELSE SameData(due[i], unpacked[i].obj[1])
==============================================================================
