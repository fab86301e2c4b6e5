---------------------------- MODULE MCJsonDecode ----------------------------
(* JsonDecode on documents of up to four objects and arrays. *)
EXTENDS JsonDecode
=============================================================================
