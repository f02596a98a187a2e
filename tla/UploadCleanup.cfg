SPECIFICATION Spec
CONSTANTS
 Jobs = {1}
 Chunks = {1, 2}
 Owner <- MCOwner
 MinMisses = 3
 PollLimit = 2
 MaxFaults = 2
INVARIANTS TypeOK RemoteFileIsTracked ClosedJobIsClean UploadedOnce NoLossWithoutFault
PROPERTIES ImplementsCustody RemoteFilesAreDeleted JobsEnd
