---------------------------- MODULE MCMailDelivery ----------------------------
(* A notice to five configured values that name three addresses: one is    *)
(* configured globally and, with blanks around it, by the spec.            *)
EXTENDS MailDelivery, MailRecipients

CONSTANTS ann, bob, cyd

MCRecipients ==
  MergedMailRecipients(<<Value(ann, FALSE), Value(bob, TRUE), Value(NoAddress, TRUE)>>,
                       <<Value(ann, TRUE), Value(cyd, FALSE)>>)
===============================================================================
