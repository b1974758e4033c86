-------------------------- MODULE MCHarnessJournal --------------------------
EXTENDS HarnessJournal

MCSeed == [planned |-> {1}, probed |-> {2}, open |-> {1, 2}, dated |-> {}]
MCSeedV4 == [planned |-> {1}, probed |-> {}, open |-> {1}, dated |-> {2}]
MCCommands == {MCSeed, MCSeedV4}

=============================================================================
