---------------------------- MODULE MCURLService ----------------------------
(* Instances of URLService for TLC, with binary digits and codes of two. *)
EXTENDS URLService, TLC

Plain == [host |-> "h", upper |-> FALSE, port |-> "", path |-> "/p",
          query |-> FALSE, fragment |-> FALSE]

\* Another way to write the same URL.
Upper == [Plain EXCEPT !.upper = TRUE, !.port = ":443"]

\* The number of the attempt is part of the fragment.
Fragment == [Plain EXCEPT !.fragment = TRUE]

\* The number of the attempt makes the host unparsable.
Literal == [Plain EXCEPT !.host = "6", !.path = ""]

\* Its first hash has too few digits.
Short == [Plain EXCEPT !.path = "/"]

Shortened == {Plain, Upper, Fragment, Literal, Short}
OnlyFragment == {Fragment}

\* The attempts at Plain give the codes <<1, 0>> and <<1, 1>>.
Hash(c) ==
  CASE c.path = "/" -> IF c.number[2] = 0 THEN 1 ELSE 6
    [] c.number = <<>> -> 2
    [] OTHER -> IF c.number[2] = 0 THEN 4 ELSE 7

BothCodes == {<<1, 0>>, <<1, 1>>}
OneAlias == {<<1, 1>>}

ReqSymmetry == Permutations(Reqs)
=============================================================================
