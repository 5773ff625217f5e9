----------------------------- MODULE CompoundId -----------------------------
(***************************************************************************)
(* The ids of bots as numbers (simulation/compound_id.rs): the model id    *)
(* and bot id of a CompoundId, for the global id the agent id too, each as *)
(* a variable-length integer (utils/varint.rs), packed into the eight      *)
(* bytes of a u64.  The maps of bot models are keyed by these numbers, and *)
(* contains_id, retain and remove_bot read the parts back from them.       *)
(*                                                                         *)
(* A u64 is the sequence of its bytes, first the highest.  The width of a  *)
(* word and of a group of bits are parameters, so that all words of a      *)
(* narrow instance can be checked; 32 and 7 in the code.                   *)
(***************************************************************************)
EXTENDS Integers, Sequences, SequencesExt

CONSTANTS
    Word,           \* bits of an agent, model or bot id
    Group,          \* bits of a word in a byte; one more bit ends the integer
    AgentIds,       \* ids an agent may have (next_u32 of rand, if not set)
    ModelIds        \* indices of models

(* The weights of the bits of the five groups that a word takes at most. *)
Pow2[n \in 0 .. 5 * Group] == IF n = 0 THEN 1 ELSE 2 * Pow2[n - 1]

Words == 0 .. (Pow2[Word] - 1)

ASSUME CompoundIdAssumption ==
    /\ Word \in Nat /\ Group \in Nat
    /\ 4 * Group < Word /\ Word <= 5 * Group
    /\ AgentIds \subseteq Words
    /\ ModelIds \subseteq 0 .. (Pow2[3 * Group] - 1)

-----------------------------------------------------------------------------
(* Encoding. *)

(* 32 - leading_zeros *)
filled_bits(v) == CHOOSE n \in 0 .. Word : v < Pow2[n] /\ (n > 0 => v >= Pow2[n - 1])

result_len(v) ==
    LET len == (filled_bits(v) + Group - 1) \div Group IN IF len > 1 THEN len ELSE 1

(* `& 254', then as u8: a group of bits, with the last bit free. *)
Masked(x) == (x % Pow2[Group + 1]) - (x % 2)

(* `self << 1' loses the highest bit of a word. *)
ByteOfShifted(v, g) == Masked(((2 * v) % Pow2[Word]) \div Pow2[(4 - g) * Group])

(* The byte of group g, of 0 .. 4. *)
Byte(v, g) ==
    IF g > 0 THEN ByteOfShifted(v, g) ELSE Masked(v \div Pow2[4 * Group - 1])

to_varint(v) ==
    LET len == result_len(v) IN
    [i \in 1 .. len |-> Byte(v, 4 - len + i) + (IF i = len THEN 1 ELSE 0)]

to_varints(values) ==
    LET joined[n \in 0 .. Len(values)] ==
            IF n = 0 THEN <<>> ELSE joined[n - 1] \o to_varint(values[n])
    IN  joined[Len(values)]

(* No value: a subtraction below zero, or a conversion that fails, panics. *)
Panic == <<>>

(* The integers, aligned to the right of eight bytes. *)
InEightBytes(bytes) ==
    IF Len(bytes) > 8 THEN Panic ELSE [i \in 1 .. (8 - Len(bytes)) |-> 0] \o bytes

internal_id(model, bot) == InEightBytes(to_varints(<<model, bot>>))

global_id(agent, model, bot) == InEightBytes(to_varints(<<agent, model, bot>>))

-----------------------------------------------------------------------------
(* Decoding. *)

(* Zero bytes are dropped, wherever they are. *)
AddByteButZeros(parts, byte) ==
    IF byte = 0 THEN parts
    ELSE IF Last(parts) = <<>> \/ Last(Last(parts)) % 2 = 0
         THEN [parts EXCEPT ![Len(parts)] = Append(@, byte)]
    ELSE Append(parts, <<byte>>)

(* A byte goes on with the integer begun, or begins one; zeros before one do not count. *)
AddByte(parts, byte) ==
    LET last == Last(parts) IN
    IF last = <<>> /\ byte = 0 THEN parts
    ELSE IF last = <<>> \/ Last(last) % 2 = 0
         THEN [parts EXCEPT ![Len(parts)] = Append(@, byte)]
    ELSE Append(parts, IF byte > 0 THEN <<byte>> ELSE <<>>)

(* The groups of bits, put together; those above a word are lost. *)
from_varint(bytes) ==
    LET value[n \in 0 .. Len(bytes)] ==
            IF n = 0 THEN 0 ELSE value[n - 1] * Pow2[Group] + bytes[n] \div 2
    IN  value[Len(bytes)] % Pow2[Word]

BadFormat == <<>>

(* The bytes, one integer each. *)
Parts(bytes) ==
    LET parts[n \in 0 .. Len(bytes)] ==
            IF n = 0 THEN <<<<>>>> ELSE AddByte(parts[n - 1], bytes[n])
    IN  parts[Len(bytes)]

(* Vec::from_varint: all of the integers, unless one has more than five bytes. *)
from_varints(bytes) ==
    LET parts == Parts(bytes) IN
    IF \E i \in DOMAIN parts : Len(parts[i]) > 5 THEN BadFormat
    ELSE [i \in DOMAIN parts |-> from_varint(parts[i])]

(* The model id and the bot id. *)
from_internal_id(id) ==
    LET sub_ids == from_varints(id) IN
    IF Len(sub_ids) = 2 THEN sub_ids ELSE BadFormat
=============================================================================
