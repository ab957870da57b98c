----------------------------- MODULE MCChatSend -----------------------------
(***************************************************************************)
(* The instance of ChatSend that is checked: a chat and a skill's with the *)
(* same words.  The bound on the messages lets an earlier chat leave a     *)
(* prompt and a step, or two prompts and an answer be there together.      *)
(***************************************************************************)
EXTENDS ChatSend

CONSTANTS plain, skill

MCSenders == {plain, skill}
MCSkills == {skill}
MCWords == [c \in MCSenders |-> "same"]

=============================================================================
