----------------------------- MODULE RowLemmas ------------------------------
(***************************************************************************)
(* Rows kept in sequences: what replacing, mapping and appending rows do   *)
(* to a table of the aggregate, and the first row with a given mark.       *)
(***************************************************************************)
EXTENDS Naturals, Sequences, SequenceTheorems, WellFoundedInduction, TLAPS

(* Mapping the rows of a table keeps its length.                           *)
LEMMA MapRows ==
    ASSUME NEW S, NEW q \in Seq(S), NEW T, NEW f \in [DOMAIN q -> T]
    PROVE  f \in Seq(T) /\ Len(f) = Len(q) /\ DOMAIN f = DOMAIN q
  <1>1. Len(q) \in Nat /\ DOMAIN q = 1 .. Len(q)
    BY LenProperties
  <1>2. f \in [1 .. Len(q) -> T]
    BY <1>1
  <1> QED BY <1>1, <1>2

(* Replacing one row, wherever the index points.                           *)
LEMMA ReplaceRow ==
    ASSUME NEW S, NEW q \in Seq(S), NEW i, NEW e, i \in DOMAIN q => e \in S
    PROVE  /\ [q EXCEPT ![i] = e] \in Seq(S)
           /\ Len([q EXCEPT ![i] = e]) = Len(q)
           /\ DOMAIN [q EXCEPT ![i] = e] = DOMAIN q
           /\ \A j \in DOMAIN q : [q EXCEPT ![i] = e][j] = IF j = i THEN e ELSE q[j]
  <1>1. Len(q) \in Nat /\ DOMAIN q = 1 .. Len(q) /\ q \in [1 .. Len(q) -> S]
    BY LenProperties
  <1>2. [q EXCEPT ![i] = e] \in [DOMAIN q -> S]
    BY <1>1
  <1>3. \A j \in DOMAIN q : [q EXCEPT ![i] = e][j] = IF j = i THEN e ELSE q[j]
    BY <1>1
  <1> QED BY <1>2, <1>3, MapRows

(* Appending one row.                                                      *)
LEMMA AppendRow ==
    ASSUME NEW S, NEW q \in Seq(S), NEW e \in S
    PROVE  /\ Append(q, e) \in Seq(S)
           /\ Len(Append(q, e)) = Len(q) + 1
           /\ Len(q) \in Nat
           /\ DOMAIN q = 1 .. Len(q)
           /\ DOMAIN Append(q, e) = 1 .. Len(q) + 1
           /\ \A j \in DOMAIN q : Append(q, e)[j] = q[j]
           /\ Append(q, e)[Len(q) + 1] = e
  BY LenProperties

(* A set of row numbers that is not empty has a least one.                 *)
LEMMA FirstRow ==
    ASSUME NEW T, T \subseteq Nat, T # {}
    PROVE  \E x \in T : \A y \in T : x <= y
  <1>1. PICK x \in T : \A y \in T : ~ (<<y, x>> \in OpToRel(<, Nat))
    BY WFMin, NatLessThanWellFounded
  <1>2. \A y \in T : ~ (y < x)
    BY <1>1 DEF OpToRel
  <1> QED BY <1>2

=============================================================================
