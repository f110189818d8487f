---------------------------- MODULE MCMigration ----------------------------
(* Two contents of the source.  The first has an object of a known codec and an *)
(* applied, mandatory one of an unknown codec, the second an optional one.      *)
EXTENDS Migration

Row(id, codec, mandatory) ==
    [id |-> id, codec |-> codec, mandatory |-> mandatory, bytes |-> id,
     applied |-> TRUE, ack |-> "ACKED", resigned |-> FALSE]

MCContents == {[kept |-> 1, signed |-> {Row(1, "change", TRUE), Row(2, "future", TRUE)}],
               [kept |-> 2, signed |-> {Row(1, "change", TRUE), Row(3, "future", FALSE)}]}
=============================================================================
