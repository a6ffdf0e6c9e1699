----------------------------- MODULE MCShmUpper -----------------------------
(* Two lines and their upper case, which are lines too.                    *)
EXTENDS ShmUpper

MCLines == {"ab", "AB", "cd", "CD"}
MCUpper == [l \in MCLines |-> CASE l = "ab" -> "AB" [] l = "cd" -> "CD" [] OTHER -> l]
=============================================================================
