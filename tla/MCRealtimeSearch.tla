-------------------------- MODULE MCRealtimeSearch --------------------------
(* Two queries, one sliding window, two page sizes, and a first page only  *)
(* before the pages that need a cursor.                                    *)
EXTENDS RealtimeSearch

CONSTANTS none, errors

=============================================================================
