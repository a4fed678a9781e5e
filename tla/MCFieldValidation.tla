-------------------------- MODULE MCFieldValidation --------------------------
(***************************************************************************)
(* Every text of up to four characters, against widths and limits of two   *)
(* and three: each text can be one short, exact, and one too long.         *)
(***************************************************************************)
EXTENDS FieldValidation

ShortTexts == UNION {[1..n -> Characters] : n \in 0..4} \cup {NotText}
=============================================================================
