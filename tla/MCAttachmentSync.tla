-------------------------- MODULE MCAttachmentSync --------------------------
(* Values for the constants of AttachmentSync.                             *)
EXTENDS AttachmentSync

ThreeEach == [h \in Hash |-> 3]
TwoOneOne == [h \in Hash |-> IF h = 1 THEN 6 ELSE 3]

(* Two attachments may share their content; the third has its own.         *)
SharedContent == [a \in Attachment |-> IF a = 1 THEN {1} ELSE IF a = 2 THEN {1, 2} ELSE {3}]

(* The first has either content; the second has content 1.                 *)
FirstAny == [a \in Attachment |-> IF a = 1 THEN {1, 2} ELSE {1}]
=============================================================================
