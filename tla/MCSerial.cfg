CONSTANTS
    FifoCap = 2
    Triggers = {1, 2}
    HostByte = {h1, h2}
    GuestByte = {g}
    MaxIn = 3
    MaxOut = 2
    Chunk = 1
SPECIFICATION SerialSpec
PROPERTIES HostBytesInOrder BytesGetAcross
CHECK_DEADLOCK FALSE
