----------------------------- MODULE StableHash -----------------------------
(***************************************************************************)
(* The canonical encoding (ironstate-aggregate/src/stablehash.rs) and what *)
(* #[derive(StableHash)] generates, a struct's fields one after another.   *)
(* A digest is a hash of the encoding; the hash is taken to have no        *)
(* collisions, so that the encoding stands for the digest.                 *)
(***************************************************************************)
EXTENDS Integers, Sequences

\* What is left of a number after each of its bytes.
Remains(x, width) ==
  LET rest[i \in 0 .. width] == IF i = 0 THEN x ELSE rest[i - 1] \div 256
  IN rest

\* An unsigned integer, little-endian in a fixed number of bytes.
EncodeUint(x, width) == [i \in 1 .. width |-> Remains(x, width)[i - 1] % 256]

\* Whether nothing of it is cut off.
FitsIn(x, width) == x \in Nat /\ Remains(x, width)[width] = 0

EncodeLen(n) == EncodeUint(n, 8)

EncodeDiscriminant(n) == EncodeUint(n, 4)

\* Slip: a variant without fields writes nothing.
EncodeUnitVariantEmpty(variants, v) == <<>>

\* A variant without fields, given the variants in the order of declaration.
EncodeUnitVariant(variants, v) ==
  EncodeDiscriminant((CHOOSE i \in DOMAIN variants : variants[i] = v) - 1)

\* What the loop over the items writes: each after what is written already.
Written(items) ==
  LET upTo[i \in 0 .. Len(items)] == IF i = 0 THEN <<>> ELSE upTo[i - 1] \o items[i]
  IN upTo[Len(items)]

EncodeVec(items) == EncodeLen(Len(items)) \o Written(items)

\* The entries of a map, a key and a value each, in the order of the keys.
EncodeMap(entries) ==
  EncodeLen(Len(entries)) \o
  Written([i \in DOMAIN entries |-> entries[i][1] \o entries[i][2]])
=============================================================================
