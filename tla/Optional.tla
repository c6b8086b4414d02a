------------------------------ MODULE Optional ------------------------------
(* A value that may be absent: nil, an empty string, a missing field.       *)
CONSTANT None
=============================================================================
