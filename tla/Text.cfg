SPECIFICATION Spec
CONSTANTS
    Streams <- AllStreams
    max_line_bytes_ = 10
    sequence_ = 9
INVARIANTS TypeOK RepliesMatchLines LogReadsBack CutInventsNothing JoinedReads
