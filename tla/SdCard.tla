-------------------------------- MODULE SdCard --------------------------------
(***************************************************************************)
(* The sessions of the SD card demonstration (appli/demo_sd.c) and what the *)
(* web server does to the same volume, over the layers below them: the table *)
(* of drivers (ff_gen_drv.c, diskio.c), the volumes of FatFs (f_mount and    *)
(* find_volume in ff.c), the driver (drivers/sd_diskio.c) and the card, which *)
(* somebody may take out between two steps, to put it or another one back.   *)
(*                                                                           *)
(* A sector holds the boot record, the test file, what else FatFs writes (a   *)
(* directory, a FAT, FSINFO) or something else. Which sectors a call writes,  *)
(* but for those it never writes, is left open. A call that returns OK has    *)
(* done its transfers: SdTransfer has what the driver does for them, and when *)
(* it does not.                                                              *)
(***************************************************************************)
EXTENDS Integers

CONSTANTS
    Sectors,    \* sectors of a card
    Block,      \* BLOCK_SIZE
    Word        \* 2^32: the values of a DWORD

ASSUME SizesAssumption ==
    /\ Sectors \in Nat /\ Sectors > 1
    /\ Block \in Nat \ {0} /\ Word \in Nat \ {0}
    /\ Word % Block = 0

VARIABLES
    state,          \* state of DEMO_sd_state_machine
    nbr,            \* disk.nbr
    initialized,    \* disk.is_initialized[0]
    path,           \* the volume SDPath names: 0, 1, or -1 for none
    vol0,           \* FatFs[0]: "none", "SDFatFs", or "fs" of the web server
    mounted,        \* its fs_type: "off" for 0; "stale" once its card is taken out
    wflag,          \* its window holds a sector that has not been written yet
    card,           \* "absent", "new", or "ready" once HAL_SD_Init has succeeded
    data,           \* data[s]: what sector s of the card holds
    file,           \* the sector of the test file of this session
    shown,          \* what READ_TEST_FILE has displayed in this session
    web,            \* the web server has had its first session
    file_system_mounted,    \* its flag
    opened,         \* its opened_files is not 0
    kept,           \* history: the steps of this session's file have all succeeded
    exact           \* history: its sectors had addresses of 32 bits on its own card

table  == <<nbr, initialized, path>>
fs     == <<vol0, mounted, wflag>>
sess   == <<file, shown, kept, exact>>
server == <<web, file_system_mounted, opened>>
vars   == <<state, table, fs, card, data, sess, server>>

_VOLUMES == 2
NoFile   == -1
Numbers  == 0 .. Sectors - 1
Contents == {"boot", "test", "fs", "other"}
States   == {"INIT", "MOUNT", "WRITE_TEST_FILE", "READ_TEST_FILE",
             "DELETE_TEST_FILE", "END_WITH_ERROR", "IDLE"}

TypeOK ==
    /\ state \in States
    /\ nbr \in 0 .. _VOLUMES + 1 /\ initialized \in BOOLEAN /\ path \in -1 .. 1
    /\ vol0 \in {"none", "SDFatFs", "fs"} /\ mounted \in {"off", "current", "stale"}
    /\ wflag \in BOOLEAN
    /\ card \in {"absent", "new", "ready"} /\ data \in [Numbers -> Contents]
    /\ file \in Numbers \cup {NoFile} /\ shown \in {"none", "correct", "bad"}
    /\ kept \in BOOLEAN /\ exact \in BOOLEAN
    /\ web \in BOOLEAN /\ file_system_mounted \in BOOLEAN /\ opened \in BOOLEAN

\* A card with a file system, as a computer leaves it.
Formatted == [s \in Numbers |-> IF s = 0 THEN "boot" ELSE "other"]

Init ==
    /\ state = "INIT"
    /\ nbr = 0 /\ initialized = FALSE /\ path = -1
    /\ vol0 = "none" /\ mounted = "off" /\ wflag = FALSE
    /\ card \in {"absent", "new"} /\ data = Formatted
    /\ file = NoFile /\ shown = "none" /\ kept = FALSE /\ exact = FALSE
    /\ web = FALSE /\ file_system_mounted = FALSE /\ opened = FALSE

-----------------------------------------------------------------------------
(* The driver. *)

\* SD_read and SD_write compute sector * BLOCK_SIZE on 32 bits and only then
\* make it a uint64_t; the card takes it back to a number of sector.
Address(sector) == ((sector * Block) % Word) \div Block

Fits(set) == \A s \in set : s * Block < Word

\* SD_write, of each sector of a set.
Put(d, set, content) ==
    [t \in Numbers |-> IF t \in {Address(s) : s \in set} THEN content ELSE d[t]]

\* BSP_SD_Init: the result ok.
BSP_SD_Init(ok) ==
    /\ ok => card # "absent"
    /\ card' = IF ok THEN "ready" ELSE IF card = "absent" THEN "absent" ELSE "new"

\* Variant: the table without its limit.
LinkUnbounded ==
    {[ret |-> 0, path |-> IF nbr < _VOLUMES THEN nbr ELSE -1, nbr |-> nbr + 1,
      init |-> initialized /\ nbr # 0]}

\* What FATFS_LinkDriver may return and leave.  The third link is let in too:
\* drv[2] is where nbr is, so the address of the driver becomes the number of the
\* drive.  Its low byte, a multiple of 4, is the build's: the path may be that of
\* volume 0, or of none.
FATFS_LinkDriver ==
    IF nbr < _VOLUMES
    THEN {[ret |-> 0, path |-> nbr, nbr |-> nbr + 1, init |-> initialized /\ nbr # 0]}
    ELSE IF nbr = _VOLUMES
    THEN {[ret |-> 0, path |-> l[1], nbr |-> l[2], init |-> initialized] :
            l \in {<<0, 1>>, <<0, _VOLUMES + 1>>, <<-1, _VOLUMES + 1>>}}
    ELSE {[ret |-> 1, path |-> path, nbr |-> nbr, init |-> initialized]}

Link(l) == nbr' = l.nbr /\ path' = l.path

\* disk_initialize calls the driver when init, the flag of the drive, is not set
\* yet, and answers RES_OK otherwise.
disk_initialize(init) ==
    /\ IF init THEN UNCHANGED card ELSE \E done \in BOOLEAN : BSP_SD_Init(done)
    /\ initialized' = TRUE

-----------------------------------------------------------------------------
(* FatFs. *)

\* What the window of a volume must find on the card for it to be mounted.
Mounts ==
    /\ mounted' \in {"off", "current"}
    /\ mounted' = "current" => card' = "ready" /\ data[Address(0)] = "boot"

\* find_volume on volume 0, with v registered and m for its type. A volume that
\* has a type is taken as it is when the driver finds the card initialised, which
\* may be another card; else it is mounted, whatever it was. ok is the result of
\* the call that it serves, which may fail after it.
find_volume(v, m, init, ok) ==
    \/ /\ v = "none" /\ ~ok
       /\ mounted' = m /\ initialized' = init /\ UNCHANGED card
    \/ /\ v # "none" /\ m # "off" /\ card = "ready"
       /\ mounted' = m /\ initialized' = init /\ UNCHANGED card
    \/ v # "none" /\ disk_initialize(init) /\ Mounts /\ (ok => mounted' = "current")

\* The sectors that a call may write: none without a volume, and of its own card
\* not the first (the FAT begins after at least one reserved sector, or FSINFO
\* after the boot record). A volume read on another card says nothing of this one.
Writable ==
    {s \in Numbers : mounted' = "stale" \/ (mounted' = "current" /\ s # 0)}

\* A call that only reads writes what a call that failed has left in the window,
\* when it moves it; the window is dropped when the volume is mounted again.
ReadsOnly(m) ==
    \/ UNCHANGED data /\ wflag' \in {FALSE, wflag}
    \/ /\ wflag /\ wflag' = FALSE /\ m # "off" /\ card = "ready"
       /\ \E left \in SUBSET Writable : data' = Put(data, left, "fs")

-----------------------------------------------------------------------------
(* DEMO_sd_state_machine, one action for each state. *)

Initialise ==
    /\ state = "INIT"
    /\ \E ok \in BOOLEAN :
        BSP_SD_Init(ok) /\ state' = IF ok THEN "MOUNT" ELSE "END_WITH_ERROR"
    /\ file' = NoFile /\ shown' = "none" /\ kept' = FALSE /\ exact' = FALSE
    /\ UNCHANGED <<table, fs, data, server>>

\* Variant: f_mount leaves the type of the volume as it is.
TypeKept(v) == mounted

\* f_mount(&SDFatFs, SDPath, 0) registers the volume and clears its type, where
\* it is registered already too. What FatFs[0] and its type are after it.
Registered(l) == IF l.path = 0 THEN "SDFatFs" ELSE vol0
Cleared(v) == IF v = "SDFatFs" THEN "off" ELSE mounted

\* Variant: f_mount, which only registers the volume, is believed.
MountBelieved ==
    /\ state = "MOUNT"
    /\ \E l \in FATFS_LinkDriver :
        /\ Link(l) /\ initialized' = l.init
        /\ IF l.ret = 0 /\ l.path # -1
           THEN /\ vol0' = Registered(l) /\ mounted' = Cleared(vol0')
                /\ state' = "WRITE_TEST_FILE"
           ELSE state' = "END_WITH_ERROR" /\ UNCHANGED <<vol0, mounted>>
    /\ UNCHANGED <<card, data, wflag, sess, server>>

\* A driver is linked, f_mount registers the volume, and f_getfree("") mounts
\* volume 0, whatever the volume that was registered.
MountCard ==
    /\ state = "MOUNT"
    /\ \E l \in FATFS_LinkDriver, ok \in BOOLEAN :
        /\ Link(l)
        /\ IF l.ret = 0 /\ l.path # -1
           THEN /\ vol0' = Registered(l)
                /\ find_volume(vol0', Cleared(vol0'), l.init, ok)
                /\ ReadsOnly(Cleared(vol0'))
           ELSE ~ok /\ initialized' = l.init /\ UNCHANGED <<fs, card, data>>
        /\ state' = IF ok THEN "WRITE_TEST_FILE" ELSE "END_WITH_ERROR"
    /\ UNCHANGED <<sess, server>>

\* f_open creates the file: it writes directory and FAT before it and with it.
\* f_write leaves the few bytes of the file in its buffer: f_close, whose result
\* nobody reads, writes them, then the window and FSINFO. One that fails has
\* written a part of this.
WriteTestFile ==
    /\ state = "WRITE_TEST_FILE" /\ state' = "READ_TEST_FILE"
    /\ \E open, close \in BOOLEAN :
        /\ find_volume(vol0, mounted, initialized, open)
        /\ wflag' \in BOOLEAN /\ (open /\ close => ~wflag')
        /\ IF open
           THEN \E s \in Writable : \E before, after \in SUBSET (Writable \ {s}),
                                       own \in IF close THEN {{s}} ELSE {{}, {s}} :
                    /\ data' = Put(Put(Put(data, before, "fs"), own, "test"), after, "fs")
                    /\ file' = s /\ kept' = close
                    /\ exact' = (mounted' = "current" /\ Fits(before \cup {s} \cup after))
           ELSE /\ \E before \in SUBSET Writable : data' = Put(data, before, "fs")
                /\ UNCHANGED <<file, kept, exact>>
    /\ UNCHANGED <<nbr, path, vol0, shown, server>>

\* Variant: the characters read without the zero that ends them.
ReadNotTerminated ==
    /\ state = "READ_TEST_FILE" /\ state' = "DELETE_TEST_FILE"
    /\ \E open, read \in BOOLEAN :
        /\ find_volume(vol0, mounted, initialized, open) /\ ReadsOnly(mounted)
        /\ kept' = (kept /\ open /\ read)
        /\ IF open THEN shown' \in {"correct", "bad"} ELSE UNCHANGED shown
    /\ UNCHANGED <<nbr, path, vol0, file, exact, server>>

\* A read that fails is shown as bad data. A file that this session has not
\* written, or of another volume than the one it was written through, may hold
\* anything.
ReadTestFile ==
    /\ state = "READ_TEST_FILE" /\ state' = "DELETE_TEST_FILE"
    /\ \E open, read \in BOOLEAN :
        /\ find_volume(vol0, mounted, initialized, open) /\ ReadsOnly(mounted)
        /\ kept' = (kept /\ open /\ read)
        /\ IF ~open THEN UNCHANGED shown
           ELSE IF ~read THEN shown' = "bad"
           ELSE IF file = NoFile \/ mounted' # mounted THEN shown' \in {"correct", "bad"}
           ELSE shown' = IF data[Address(file)] = "test" THEN "correct" ELSE "bad"
    /\ UNCHANGED <<nbr, path, vol0, file, exact, server>>

\* f_unlink writes the directory, and the FAT where it frees the file.
DeleteTestFile ==
    /\ state = "DELETE_TEST_FILE" /\ state' = "IDLE"
    /\ \E ok \in BOOLEAN :
        /\ find_volume(vol0, mounted, initialized, ok)
        /\ wflag' \in BOOLEAN /\ (ok => ~wflag')
    /\ \E written \in SUBSET Writable : data' = Put(data, written, "fs")
    /\ UNCHANGED <<nbr, path, vol0, sess, server>>

\* END_WITH_ERROR, and the end of the session when it is asked for.
EndWithError == state = "END_WITH_ERROR" /\ state' = "IDLE"
Finish == state = "IDLE" /\ state' = "INIT"
Rest == (EndWithError \/ Finish) /\ UNCHANGED <<table, fs, card, data, sess, server>>

-----------------------------------------------------------------------------
(* The web server, which runs between two sessions of the demonstration. It    *)
(* opens files that exist and only reads them.                                *)

\* Its only INIT: the results of BSP_SD_Init and of f_mount are not read.
WebStarts ==
    /\ state = "INIT" /\ ~web /\ web' = TRUE
    /\ \E l \in FATFS_LinkDriver :
        /\ Link(l) /\ initialized' = (l.init \/ l.ret = 0)
        /\ IF card = "absent" THEN UNCHANGED card ELSE card' \in {"new", "ready"}
        /\ IF l.ret = 0 /\ (l.init \/ card' = "ready")
           THEN vol0' = "SDFatFs" /\ Mounts /\ wflag' = FALSE
           ELSE UNCHANGED fs
    /\ UNCHANGED <<state, data, sess, file_system_mounted, opened>>

\* OpenFileCallback mounts volume 0 for itself, if its flag says that it has not
\* yet, and opens the file (f_open mounts again where f_mount has failed).
WebOpens ==
    /\ state = "INIT" /\ web
    /\ vol0' = IF file_system_mounted THEN vol0 ELSE "fs"
    /\ LET type == IF file_system_mounted THEN mounted ELSE "off"
       IN  find_volume(vol0', type, initialized, TRUE) /\ ReadsOnly(type)
    /\ opened' = TRUE
    /\ file_system_mounted' \in {TRUE, file_system_mounted}
    /\ UNCHANGED <<state, nbr, path, sess, web>>

\* It fails, and unmounts the volume if no other file is open. The file may then
\* be found in flash.
WebFails ==
    /\ state = "INIT" /\ web
    /\ LET own  == IF file_system_mounted THEN vol0 ELSE "fs"
           type == IF file_system_mounted THEN mounted ELSE "off"
       IN  IF opened
           THEN /\ vol0' = own /\ find_volume(own, type, initialized, FALSE)
                /\ ReadsOnly(type)
                /\ file_system_mounted' \in {TRUE, file_system_mounted}
           ELSE /\ disk_initialize(initialized) \/ UNCHANGED <<initialized, card>>
                /\ vol0' = "none" /\ mounted' = "off" /\ wflag' = FALSE
                /\ file_system_mounted' = FALSE /\ UNCHANGED data
    /\ opened' \in {opened, TRUE}
    /\ UNCHANGED <<state, nbr, path, sess, web>>

\* ReadFileCallback.
WebReads ==
    /\ state = "INIT" /\ opened /\ vol0 = "fs" /\ mounted # "off" /\ card = "ready"
    /\ mounted' = mounted /\ ReadsOnly(mounted)
    /\ UNCHANGED <<state, table, vol0, card, sess, server>>

\* The last open file is closed: CloseFileCallback unmounts the volume, and is
\* not called for a file found in flash.
WebCloses ==
    /\ state = "INIT" /\ opened /\ opened' = FALSE
    /\ \/ /\ vol0' = "none" /\ mounted' = "off" /\ wflag' = FALSE
          /\ file_system_mounted' = FALSE
       \/ UNCHANGED <<fs, file_system_mounted>>
    /\ UNCHANGED <<state, table, card, data, sess, web>>

-----------------------------------------------------------------------------
(* Somebody takes the card out, and puts it or another one in. *)

CardOut ==
    /\ card # "absent" /\ card' = "absent"
    /\ mounted' = IF mounted = "current" THEN "stale" ELSE mounted
    /\ UNCHANGED <<state, table, vol0, wflag, data, sess, server>>

CardIn ==
    /\ card = "absent" /\ card' = "new" /\ data' \in {data, Formatted}
    /\ UNCHANGED <<state, table, fs, sess, server>>

Next ==
    \/ Initialise \/ MountCard \/ WriteTestFile \/ ReadTestFile \/ DeleteTestFile
    \/ Rest \/ WebStarts \/ WebOpens \/ WebFails \/ WebReads \/ WebCloses
    \/ CardOut \/ CardIn

Spec == Init /\ [][Next]_vars

-----------------------------------------------------------------------------
(* Properties. *)

\* When the file was written and read back without an error of the card, what is
\* read is what was written: "Bad datas read" only ever tells of a step that has
\* failed, of an address that did not fit 32 bits (a card of more than 4 GB) or of
\* a volume of another card. It rests on the idealisation that a transfer whose
\* call returned OK is done, which TransferIsWhole of SdTransfer refutes for the
\* last block of a read.
BadDataMeansFailure == shown = "bad" => ~kept \/ ~exact

\* What the demonstration writes, it writes through a volume read from the card
\* that is there, in whatever order cards, sessions and drivers come. Nothing is
\* written through the volume of another card but through the web server's own, which
\* a session that ends with a file open leaves registered, or by the web server
\* while its flag says that it has mounted, whatever is registered by then.
WritesItsVolume ==
    [][data' # data /\ card # "absent" =>
            mounted' = "current" \/ vol0' = "fs" \/ file_system_mounted]_vars

\* The steps that use files only run on a volume that is registered, over a drive
\* that is linked and that disk_initialize has seen, although the web server may
\* have unmounted volume 0 and links the same driver again.
FilesNeedVolume ==
    state \in {"WRITE_TEST_FILE", "READ_TEST_FILE", "DELETE_TEST_FILE"} =>
        vol0 # "none" /\ initialized /\ nbr > 0
=============================================================================
