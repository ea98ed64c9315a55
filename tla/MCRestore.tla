----------------------------- MODULE MCRestore -----------------------------
(* Instances of Restore: files of no chunk, one, a batch, and a batch and one. *)
EXTENDS Restore

CONSTANTS a, b, c

SmallSizes == (a :> 1) @@ (b :> 3) @@ (c :> 2)

NoReupload == {<<f>> : f \in {<< >>, <<a>>, <<b, a>>, <<b, b, a>>, <<a, b, c, a, b>>}}

Reupload == {<<f, g>> : f, g \in {<< >>, <<b>>, <<a, b, a>>}} \union {<<<<a, b, c, a, b>>, <<a>>>>}
(* A name that is uploaded once, and one that is uploaded again. *)
AnyHistory == NoReupload \union Reupload
=============================================================================
