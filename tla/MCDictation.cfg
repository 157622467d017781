\* Two recordings, one that is uploaded while the other records.
CONSTANT
  MaxDictations = 2
SPECIFICATION DictationSpec
INVARIANT
  RecordingsStopAtTheLimit
CHECK_DEADLOCK FALSE
