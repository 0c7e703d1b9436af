---------------------------- MODULE MailRecipients ----------------------------
(***************************************************************************)
(* Who gets the mails of one notice: mergedMailRecipients of               *)
(* internal/monitor/runner.go. A value as it stands in the configuration   *)
(* or in a spec file is an address that may be surrounded by blanks.       *)
(***************************************************************************)
EXTENDS Sequences, SequencesExt

CONSTANT NoAddress   \* the empty string

Value(address, padded) == [address |-> address, padded |-> padded]

(* strings.TrimSpace                                                       *)
TrimSpace(value) == value.address

AppendNonEmpty(merged, value) ==
  IF TrimSpace(value) = NoAddress THEN merged ELSE Append(merged, TrimSpace(value))

MutantMergedMailRecipients(globalRecipients, specRecipients) ==
  FoldLeft(AppendNonEmpty, <<>>, globalRecipients \o specRecipients)

(* appendUnique, for one value.                                            *)
AppendUnique(merged, value) ==
  IF TrimSpace(value) = NoAddress \/ Contains(merged, TrimSpace(value))
  THEN merged
  ELSE Append(merged, TrimSpace(value))

(* Global recipients first, then the spec's own, each address once.        *)
MergedMailRecipients(globalRecipients, specRecipients) ==
  FoldLeft(AppendUnique, <<>>, globalRecipients \o specRecipients)
===============================================================================
