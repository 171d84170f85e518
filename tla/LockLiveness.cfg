\* Untimed and zero-duration calls, no re-entrant reads.
SPECIFICATION FairSpec
CONSTANTS
    Threads = {t1, t2, t3}
    NoThread = NoThread
    ReadDurations = {"forever", "long"}
    WriteDurations = {"forever", "zero"}
    MaxReads = 1
    MaxWrites = 2
INVARIANTS NoStrandedReader
PROPERTIES WriterAdmitted ReaderStarvedOnlyByWriters
