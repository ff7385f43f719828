----------------------------- MODULE MCFraming ------------------------------
(***************************************************************************)
(* Streams of eight bytes: an empty line and one with a letter of two      *)
(* bytes, line ends that are none, a line end that is not whole, and a     *)
(* byte order mark, which may or may not be the first of a read.           *)
(***************************************************************************)
EXTENDS Framing

MCAlphabet == {"a", "b", "two", "bom", "trail", "cr", "lf"}

MCStreams == {<<"cr", "lf", "a", "two", "trail", "cr", "lf", "b">>,
              <<"a", "cr", "cr", "lf", "lf", "b", "cr", "lf">>,
              <<"b", "bom", "trail", "trail", "cr", "lf", "a", "cr">>}
=============================================================================
