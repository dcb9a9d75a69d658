--------------------------- MODULE StringkeyedSet ---------------------------
(***************************************************************************)
(* stringkeyed.Set (internal/stringkeyed): a set of strings kept in one    *)
(* string, so that == compares sets.  A string is a sequence of bytes.     *)
(* Base64 is external: it is one to one, and its bytes are none of the two *)
(* control bytes.                                                          *)
(***************************************************************************)
EXTENDS Naturals, Sequences, FiniteSets, SequencesExt

shiftOut      == 14
unitSeparator == 31

Base64(elem)   == [i \in DOMAIN elem |-> elem[i] + 256]
Unbase64(elem) == [i \in DOMAIN elem |-> elem[i] - 256]

\* Faulty: an element that begins like an encoded one is left as it is.
EncodeSeparator(elem) ==
  IF unitSeparator \in ToSet(elem) THEN <<shiftOut>> \o Base64(elem) ELSE elem

Encode(elem) ==
  IF unitSeparator \in ToSet(elem) \/ (elem # <<>> /\ elem[1] = shiftOut)
    THEN <<shiftOut>> \o Base64(elem)
    ELSE elem

Decode(elem) ==
  IF elem # <<>> /\ elem[1] = shiftOut THEN Unbase64(Tail(elem)) ELSE elem

\* The order of Go strings.
Before(a, b) ==
  \/ IsStrictPrefix(a, b)
  \/ \E i \in DOMAIN a \cap DOMAIN b :
       a[i] < b[i] /\ \A j \in 1..(i - 1) : a[j] = b[j]

\* slices.Sort and slices.Compact.
Sorted(elems) ==
  CHOOSE all \in [1..Cardinality(elems) -> elems] :
    \A i, j \in DOMAIN all : i < j => Before(all[i], all[j])

\* strings.Join and strings.SplitSeq, with the separator, element by element and
\* byte by byte.
Join(elems) ==
  LET joined[n \in 0..Len(elems)] ==
        IF n = 0 THEN <<>>
        ELSE IF n = 1 THEN elems[1]
        ELSE joined[n - 1] \o <<unitSeparator>> \o elems[n]
  IN  joined[Len(elems)]

Split(joined) ==
  LET elems[n \in 0..Len(joined)] ==
        IF n = 0 THEN << <<>> >>
        ELSE IF joined[n] = unitSeparator THEN Append(elems[n - 1], <<>>)
        ELSE [elems[n - 1] EXCEPT ![Len(elems[n - 1])] = Append(@, joined[n])]
  IN  elems[Len(joined)]

\* Set.All and ToSlice.
ToSlice(joined) ==
  IF joined = <<>> THEN <<>>
  ELSE IF joined = <<unitSeparator>> THEN << <<>> >>
  ELSE LET elems == Split(joined) IN [i \in DOMAIN elems |-> Decode(elems[i])]

SetCardinality(joined) ==
  IF joined = <<>> THEN 0
  ELSE IF joined = <<unitSeparator>> THEN 1
  ELSE 1 + Cardinality({i \in DOMAIN joined : joined[i] = unitSeparator})

\* Set.Add: sorted, without repetitions, encoded and joined.
Add(joined, elems) ==
  LET all == Sorted(ToSet(ToSlice(joined) \o elems))
  IN  IF all = << <<>> >> THEN <<unitSeparator>>
      ELSE Join([i \in DOMAIN all |-> Encode(all[i])])

SetOf(elems) == Add(<<>>, elems)

\* UnmarshalJSON of a list of strings: the set, or nothing for an error.
UnmarshalJSON(elems) ==
  LET newset == SetOf(elems)
  IN  IF SetCardinality(newset) < Len(elems) THEN {} ELSE {newset}

\* UnmarshalJSONFrom, with the other JSON package: each element is new to a map.
UnmarshalJSONFrom(elems) ==
  IF \E i, j \in DOMAIN elems : i # j /\ elems[i] = elems[j] THEN {}
  ELSE {SetOf(SetToSeq(ToSet(elems)))}

=============================================================================
