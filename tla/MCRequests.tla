----------------------------- MODULE MCRequests -----------------------------
(***************************************************************************)
(* An instance of Requests for TLC: one spec with any list of at most      *)
(* three short strings as its platforms, and up to three specs with        *)
(* sources and destinations that coincide, also under different names.     *)
(***************************************************************************)
EXTENDS Requests

\* Strings of at most two bytes, of which one is a letter.
Bytes   == {shiftOut, unitSeparator, 97}
Strings == BoundedSeq(Bytes, 2)

Ref(path, tag, digest) == [path |-> path, tag |-> tag, digest |-> digest]
Raw(src, dst, limit)   == [src |-> src, dst |-> dst, limit |-> limit]

app   == Ref(<<"app">>, "", "")
app2  == Ref(<<"docker.io", "library", "app">>, "latest", "")
appD  == Ref(<<"app">>, "", "D")
tool  == Ref(<<"r.io", "tool">>, "", "")
copy  == Ref(<<"r.io", "copy">>, "v1", "")
copyD == Ref(<<"r.io", "copy">>, "", "D")

amd == <<97>>
arm == <<97, 97>>

SetInputs == {<< <<Raw(app, copy, list)>> >> : list \in BoundedSeq(Strings, 3)}

Raws ==
  {Raw(src, dst, limit) : src \in {app, app2, appD, tool}, dst \in {copy, copyD},
                          limit \in {<<>>, <<amd, arm>>, <<arm, amd>>}}
  \cup {Raw(copy, app2, <<>>)}

MergeInputs ==
  {<< <<r, t>> >> : r \in Raws, t \in Raws} \cup
  {<< <<r>>, <<>>, <<t, r>> >> : r \in Raws, t \in {Raw(app, copy, <<amd>>), Raw(tool, copyD, <<>>)}}

AllInputs == SetInputs \cup MergeInputs

=============================================================================
