------------------------------- MODULE Packer -------------------------------
(***************************************************************************)
(* The package format of Nanolog: pack() stores a value in as few bytes as *)
(* it needs and returns a code, the caller keeps the code in four bits (a  *)
(* nibble), and unpack() restores the value from the bytes and the nibble. *)
(* The machine packs a few values one after the other into one buffer and  *)
(* unpacks them again.                                                     *)
(*                                                                         *)
(* A byte has B values (256 in the code), so that the ends of the range of *)
(* an integer can be checked.  What a floating point number's bytes mean   *)
(* does not matter here: it is its bytes.                                  *)
(***************************************************************************)
EXTENDS Integers, Sequences, FiniteSetsExt

CONSTANTS
  B,              \* values of a byte
  Values(_),      \* the values of a type that are packed
  MaxPackages     \* packages in one buffer

ASSUME ByteAssumption == B \in {2 * k : k \in 1..128}
ASSUME MaxPackagesAssumption == MaxPackages \in Nat \ {0}

VARIABLES
  memory,         \* what has been written, from the start of the buffer
  buffer,         \* the offset the next package will be written to
  nibbles,        \* the codes, as the caller has stored them
  data_array,     \* the offset the next package will be read from
  packed,         \* history: the values packed
  unpacked        \* the values unpacked so far

packVars == <<memory, buffer, nibbles, data_array, packed, unpacked>>

-----------------------------------------------------------------------------
(* The types that are packed.                                              *)

Unsigned == {"uint32_t", "uint64_t", "pointer"}
Signed == {"int32_t", "int64_t"}
Floating == {"float", "double", "long double"}
Types == Unsigned \union Signed \union Floating

sizeof(T) ==
  CASE T \in {"uint32_t", "int32_t", "float"} -> 4
    [] T = "long double" -> 16
    [] OTHER -> 8

\* The number of values of n bytes.
Power[n \in 0..8] == IF n = 0 THEN 1 ELSE B * Power[n - 1]

\* The sum of a sequence of numbers.
Total(ns) ==
  LET sum[i \in 0..Len(ns)] == IF i = 0 THEN 0 ELSE sum[i - 1] + ns[i]
  IN sum[Len(ns)]

\* static_cast<T>(v) for an integer type T.
Cast(T, v) ==
  LET range == Power[sizeof(T)]
      u == v % range
  IN IF T \in Signed /\ u >= range \div 2 THEN u - range ELSE u

\* The bytes of a value in memory, the lowest first.
Bytes(T, v) ==
  IF T \in Floating THEN v
  ELSE [i \in 1..sizeof(T) |-> ((v % Power[sizeof(T)]) \div Power[i - 1]) % B]

\* The integer that some bytes are.
Number(bytes) == Total([i \in DOMAIN bytes |-> bytes[i] * Power[i - 1]])

\* The values of a type.
Representable(T) ==
  CASE T \in Floating -> [1..sizeof(T) -> 0..(B - 1)]
    [] T \in Unsigned -> 0..(Power[sizeof(T)] - 1)
    [] T \in Signed -> LET half == Power[sizeof(T)] \div 2 IN -half..(half - 1)

ASSUME ValuesAssumption == \A T \in Types : Values(T) \subseteq Representable(T)

-----------------------------------------------------------------------------
(* Packing.                                                                *)

\* memcpy() to an offset of the buffer.
Stored(at, bytes) ==
  LET end == at + Len(bytes)
  IN [i \in 1..(IF end > Len(memory) THEN end ELSE Len(memory)) |->
        IF i > at /\ i <= end THEN bytes[i - at] ELSE memory[i]]

\* A plausible slip: the bound of a size is counted with it.
num_bytes_Inclusive(value) == Min({n \in 1..8 : value <= Power[n] \/ n = 8})

\* The first of the tests of pack<T>(), for an unsigned T, that holds.
num_bytes(value) == Min({n \in 1..8 : value < Power[n] \/ n = 8})

\* A plausible slip: the test for a small negative number is of the wrong
\* power, so large ones take all their bytes.
IsSmallNegative_Wrong(T, value) ==
  T \in Signed /\ value < 0 /\ value > -Power[sizeof(T) - 2]

\* A negative number that needs fewer bytes than its type without its sign.
IsSmallNegative(T, value) ==
  T \in Signed /\ value < 0 /\ value > -Power[sizeof(T) - 1]

\* What pack() returns; the bytes it copies are those of magnitude(), all
\* sizeof(T) of them, whatever the number it counts.
pack_code(T, value) ==
  CASE T \in Floating -> sizeof(T)
    [] IsSmallNegative(T, value) -> 8 + num_bytes(-value)
    [] OTHER -> num_bytes(value % Power[sizeof(T)])

magnitude(T, value) == IF IsSmallNegative(T, value) THEN -value ELSE value

\* The bytes that a package takes: the code without the sign.
BytesOfCode(code) == IF code > 8 /\ code < 16 THEN code - 8 ELSE code

pack(T, value) ==
  /\ Len(packed) < MaxPackages
  /\ unpacked = <<>>
  /\ memory' = Stored(buffer, Bytes(T, magnitude(T, value)))
  /\ buffer' = buffer + BytesOfCode(pack_code(T, value))
  /\ nibbles' = Append(nibbles, pack_code(T, value) % 16)
  /\ packed' = Append(packed, [type |-> T, value |-> value])
  /\ UNCHANGED <<data_array, unpacked>>

-----------------------------------------------------------------------------
(* Unpacking.                                                              *)

\* A plausible slip: the sign is lost.
unpack_value_NoSign(T, nibble, bytes) ==
  IF T \in Floating THEN bytes
  ELSE Cast(T, Number(bytes))

\* unpack<T>() of the bytes of a package.
unpack_value(T, nibble, bytes) ==
  CASE T \in Floating -> bytes
    [] T \notin Floating /\ nibble <= 8 -> Cast(T, Number(bytes))
    [] OTHER -> Cast(T, -Number(bytes))

\* The bytes of a package by its nibble; sixteen does not fit into one.
\* The sizes of get_size_of_package() are the same.
size_of_nibble_NoZero(nibble) == IF nibble > 8 THEN nibble - 8 ELSE nibble
size_of_nibble(nibble) ==
  CASE nibble = 0 -> 16
    [] nibble > 8 -> nibble - 8
    [] OTHER -> nibble

get_size_of_package(ns) == Total([k \in DOMAIN ns |-> size_of_nibble(ns[k])])

\* The caller unpacks the packages in the order it packed them.
unpack ==
  /\ Len(unpacked) < Len(packed)
  /\ LET k == Len(unpacked) + 1
         size == size_of_nibble(nibbles[k])
     IN /\ unpacked' = Append(unpacked,
             unpack_value(packed[k].type, nibbles[k],
                          SubSeq(memory, data_array + 1, data_array + size)))
        /\ data_array' = data_array + size
  /\ UNCHANGED <<memory, buffer, nibbles, packed>>

PackInit ==
  /\ memory = <<>>
  /\ buffer = 0
  /\ nibbles = <<>>
  /\ data_array = 0
  /\ packed = <<>>
  /\ unpacked = <<>>

PackNext ==
  \/ \E T \in Types : \E value \in Values(T) : pack(T, value)
  \/ unpack

PackSpec == PackInit /\ [][PackNext]_packVars

-----------------------------------------------------------------------------
(* Properties.                                                             *)

\* What comes out is what went in, in the same order, although pack()
\* copies more bytes than it counts and the next package overwrites them,
\* and at every boundary of sign and size of every type (pack, unpack).
RoundTrip ==
  \A k \in DOMAIN unpacked : unpacked[k] = packed[k].value

\* The fewest bytes that hold a value without its sign.
FewestBytes(T, value) ==
  LET m == IF value < 0 THEN -value ELSE value
  IN IF T \in Floating THEN sizeof(T)
                       ELSE Min({n \in 1..sizeof(T) : m < Power[n]})

\* The packages take no more room than their values need, and the size that
\* get_size_of_package() finds from the nibbles alone is the size written.
PackageIsMinimal ==
  /\ buffer = Total([k \in DOMAIN packed |-> FewestBytes(packed[k].type, packed[k].value)])
  /\ get_size_of_package(nibbles) = buffer
=============================================================================
