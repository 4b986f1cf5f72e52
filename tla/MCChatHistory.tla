--------------------------- MODULE MCChatHistory ---------------------------
(* Two text channels with a little history in each.                        *)
EXTENDS ChatHistory

CONSTANTS A, B

\* Two old messages in A, one in B: with pages of one row, A has more to page.
ThreeOld == <<A, A, B>>

\* Three old messages in A: a full page of two and a short one.
PagedOld == <<A, A, A>>
=============================================================================
