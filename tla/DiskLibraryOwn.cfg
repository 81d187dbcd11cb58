CONSTANTS
    a = a
    c = c
    disk = disk
    Catalog = {disk}
    Drives = {a, c}
    OwnDrives = {a}
    DefaultDisk <- MCDefault
    Attempts = 2
    MaxTasks = 2
SPECIFICATION LibrarySpec
PROPERTY OwnImagesStay
CHECK_DEADLOCK FALSE
