\* Image files, streams, trees and exports.
SPECIFICATION Spec
CONSTANTS
  p1 = p1  p2 = p2  dest1 = dest1  dest2 = dest2  d1 = d1  d2 = d2
  corrupt = corrupt  nil = nil
SYMMETRY Symmetry
INVARIANTS ReadsWhatWasWritten StreamsReplay FilesAreWhole RestoredIsRecorded
CHECK_DEADLOCK FALSE
