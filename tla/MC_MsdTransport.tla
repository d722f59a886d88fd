--------------------------- MODULE MC_MsdTransport ---------------------------
(* A medium of two sectors of two packets each, and what the host may command. *)
EXTENDS MsdTransport, TLC

CONSTANTS a, b  \* the tags

Command(op, in, length, lba, count) ==
  [op |-> op, in |-> in, length |-> length, lba |-> lba, count |-> count, tag |-> a,
   form |-> "meaningful"]

NoMeaning(form) ==
  [Command("TEST_UNIT_READY", FALSE, 0, 0, 0) EXCEPT !.form = form]

\* Transfers of two sectors, a command with a short answer and one without data.
MCTransfers == {
  Command("READ_10", TRUE, 256, 0, 2),
  Command("WRITE_10", FALSE, 256, 0, 2),
  Command("INQUIRY", TRUE, 36, 0, 36),
  Command("TEST_UNIT_READY", FALSE, 0, 0, 0) }

\* Transfers that do not end as announced: the thirteen cases, and sectors that are not there.
MCErrors == {
  Command("READ_10", TRUE, 256, 1, 2),       \* the second sector is out of range
  Command("READ_10", TRUE, 64, 0, 1),        \* case 7: the host expects less
  Command("READ_10", TRUE, 256, 0, 1),       \* case 5: the host expects more
  Command("READ_10", FALSE, 0, 0, 1),        \* case 2, with the direction bit of OUT
  Command("WRITE_10", FALSE, 256, 1, 2),     \* the second sector is out of range
  Command("WRITE_10", FALSE, 192, 0, 1),     \* case 11
  Command("WRITE_10", FALSE, 64, 0, 1),      \* case 13
  Command("WRITE_10", TRUE, 128, 0, 1),      \* case 8
  Command("TEST_UNIT_READY", TRUE, 64, 0, 0) \* case 4
  }

\* ... among orderly ones.
MCMixed == MCErrors \cup {
  Command("READ_10", TRUE, 256, 0, 2),
  Command("WRITE_10", FALSE, 128, 1, 1) }

\* The other commands, with answers that are cut or padded, and CBWs that are none.
MCAnswers == {
  Command("READ_10", TRUE, 0, 0, 0),
  Command("WRITE_10", FALSE, 0, 0, 0),
  Command("INQUIRY", TRUE, 96, 0, 96),       \* longer than the answer
  Command("INQUIRY", TRUE, 5, 0, 5),
  Command("INQUIRY", TRUE, 36, 0, 96),       \* case 7
  Command("INQUIRY", FALSE, 0, 0, 0),
  Command("REQUEST_SENSE", TRUE, 18, 0, 0),
  Command("READ_CAPACITY", TRUE, 8, 0, 0),
  Command("MODE_SENSE", TRUE, 192, 0, 0),
  Command("PREVENT_ALLOW_MEDIUM_REMOVAL", FALSE, 0, 0, 0),
  Command("VERIFY", FALSE, 0, 0, 0),
  Command("UNSUPPORTED", TRUE, 64, 0, 0),
  Command("UNSUPPORTED", FALSE, 64, 0, 0),
  NoMeaning("meaningless"),
  NoMeaning("invalid") }

\* Every chunk that a host can have written, and the blank one.
MCSectorChunks == (Tags \X (0 .. 3)) \cup {<<"blank", 0>>}

\* The tags are interchangeable: the host only takes care not to use one twice in a row.
Symmetry == Permutations(Tags)
=============================================================================
