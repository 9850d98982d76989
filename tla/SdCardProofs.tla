----------------------------- MODULE SdCardProofs -----------------------------
(***************************************************************************)
(* Proofs about SdCard, for every card, whether or not the addresses of its *)
(* bytes fit a word, and every size of sector that divides a word.           *)
(***************************************************************************)
EXTENDS SdCard, TLAPS

(* What the sessions keep. *)

FileStates == {"WRITE_TEST_FILE", "READ_TEST_FILE", "DELETE_TEST_FILE"}

\* A volume that is not registered has no type.
TypeNeedsVolume == vol0 = "none" => mounted = "off"

\* A driver is linked before anything runs over it, and a volume has a type once
\* disk_initialize has seen its drive.
TypeNeedsDrive ==
    /\ web => nbr > 0
    /\ mounted # "off" => initialized /\ nbr > 0

\* The steps that use files find a card that is initialised behind a stale volume
\* only where the web server has left its own.
StaleIsForeign ==
    state \in FileStates /\ mounted = "stale" /\ card = "ready" => vol0 = "fs"

\* The test file of a session whose steps have all succeeded is on the card when
\* it is read, unless the card was taken out: it is not initialised again then.
FileHolds ==
    state = "READ_TEST_FILE" /\ kept /\ exact =>
        /\ file \in Numbers /\ Fits({file})
        /\ card = "ready" => mounted = "current" /\ data[file] = "test"

\* A session has written and shown nothing before its file.
NothingShownYet ==
    state \in {"MOUNT", "WRITE_TEST_FILE"} => shown = "none" /\ kept = FALSE

Inv ==
    /\ TypeOK
    /\ TypeNeedsVolume
    /\ TypeNeedsDrive
    /\ FilesNeedVolume
    /\ StaleIsForeign
    /\ FileHolds
    /\ BadDataMeansFailure
    /\ NothingShownYet

-----------------------------------------------------------------------------
(* Addresses and sectors. *)

LEMMA DivProduct ==
    ASSUME NEW a \in Nat, NEW b \in Nat \ {0}
    PROVE  (a * b) \div b = a
PROOF BY SMT

LEMMA ModBelow ==
    ASSUME NEW a \in Nat, NEW w \in Nat \ {0}, a < w
    PROVE  a % w = a
PROOF BY SMT

\* The driver gives the card the sector it was asked for where the product of
\* SD_read and SD_write fits a word.
LEMMA AddressFits ==
    ASSUME NEW s \in Numbers, Fits({s})
    PROVE  Address(s) = s
PROOF
<1>1. s \in Nat /\ Block \in Nat \ {0} /\ Word \in Nat \ {0}
    BY SizesAssumption DEF Numbers
<1>2. s * Block \in Nat
    BY <1>1
<1>3. s * Block < Word
    BY DEF Fits
<1>4. (s * Block) % Word = s * Block
    BY <1>1, <1>2, <1>3, ModBelow
<1>5. (s * Block) \div Block = s
    BY <1>1, DivProduct
<1> QED
    BY <1>4, <1>5 DEF Address

LEMMA PutType ==
    ASSUME NEW d \in [Numbers -> Contents], NEW set, NEW content \in Contents
    PROVE  Put(d, set, content) \in [Numbers -> Contents]
PROOF BY DEF Put

\* Where there is nothing to write, nothing changes.
LEMMA PutNothing ==
    ASSUME NEW d \in [Numbers -> Contents], NEW content
    PROVE  Put(d, {}, content) = d
PROOF BY DEF Put

\* A sector whose address fits holds what was written last, whatever the sectors
\* that were written before and after it.
LEMMA PutHolds ==
    ASSUME NEW d, NEW s \in Numbers, NEW after \in SUBSET (Numbers \ {s}),
           Fits({s} \cup after)
    PROVE  Put(Put(d, {s}, "test"), after, "fs")[s] = "test"
PROOF
<1>1. Address(s) = s
    BY AddressFits DEF Fits
<1>2. ASSUME NEW t \in after PROVE Address(t) # s
    <2>1. t \in Numbers /\ t # s /\ Fits({t})
        BY <1>2 DEF Fits
    <2> QED
        BY <2>1, AddressFits
<1>3. Put(d, {s}, "test")[s] = "test"
    BY <1>1 DEF Put
<1>4. s \notin {Address(t) : t \in after}
    BY <1>2
<1> QED
    BY <1>3, <1>4 DEF Put

LEMMA WritableType == Writable \in SUBSET Numbers
PROOF BY DEF Writable

\* Nothing can be written without a volume.
LEMMA NothingWritable ==
    ASSUME mounted' = "off"
    PROVE  Writable = {}
PROOF BY DEF Writable

-----------------------------------------------------------------------------
(* The layers below the demonstration. *)

LEMMA LinkType ==
    ASSUME TypeOK, NEW l \in FATFS_LinkDriver
    PROVE  /\ l.ret \in {0, 1} /\ l.path \in -1 .. 1
           /\ l.nbr \in 0 .. _VOLUMES + 1 /\ l.nbr > 0
           /\ l.init \in BOOLEAN
PROOF
<1>1. CASE nbr < _VOLUMES
    <2>1. l = [ret |-> 0, path |-> nbr, nbr |-> nbr + 1,
               init |-> initialized /\ nbr # 0]
        BY <1>1 DEF FATFS_LinkDriver
    <2>2. nbr \in 0 .. 1
        BY <1>1 DEF TypeOK, _VOLUMES
    <2>3. (initialized /\ nbr # 0) \in BOOLEAN
        OBVIOUS
    <2> QED
        BY <2>1, <2>2, <2>3 DEF _VOLUMES
<1>2. CASE nbr = _VOLUMES
    BY <1>2, SMT DEF TypeOK, FATFS_LinkDriver, _VOLUMES
<1>3. CASE nbr > _VOLUMES
    BY <1>3, SMT DEF TypeOK, FATFS_LinkDriver, _VOLUMES
<1> QED
    BY <1>1, <1>2, <1>3, SMT DEF TypeOK, _VOLUMES

\* Linking a driver again leaves the drive of a mounted volume initialised.
LEMMA LinkedDrive ==
    ASSUME TypeOK, TypeNeedsDrive, mounted # "off", NEW l \in FATFS_LinkDriver
    PROVE  l.init
PROOF
<1>1. initialized /\ nbr > 0
    BY DEF TypeNeedsDrive
<1>2. CASE nbr < _VOLUMES
    <2>1. l = [ret |-> 0, path |-> nbr, nbr |-> nbr + 1,
               init |-> initialized /\ nbr # 0]
        BY <1>2 DEF FATFS_LinkDriver
    <2>2. nbr # 0
        BY <1>1
    <2> QED
        BY <1>1, <2>1, <2>2, Zenon
<1>3. CASE nbr = _VOLUMES
    BY <1>1, <1>3, SMT DEF TypeOK, FATFS_LinkDriver, _VOLUMES
<1>4. CASE nbr > _VOLUMES
    BY <1>1, <1>4, SMT DEF TypeOK, FATFS_LinkDriver, _VOLUMES
<1> QED
    BY <1>2, <1>3, <1>4, SMT DEF TypeOK, _VOLUMES

Mounteds == {"off", "current", "stale"}
Cards == {"absent", "new", "ready"}

LEMMA InitializeType ==
    ASSUME TypeOK, NEW init, disk_initialize(init)
    PROVE  card' \in Cards /\ initialized' = TRUE /\ (init => card' = card)
PROOF BY DEF TypeOK, disk_initialize, BSP_SD_Init, Cards

\* What a call leaves of the volume and of the card: a stale volume is one that it
\* has taken as it was, and a call that succeeds has a volume.
LEMMA FindVolume ==
    ASSUME TypeOK, NEW v, NEW m \in Mounteds, NEW init \in BOOLEAN, NEW ok,
           v = "none" => m = "off", m # "off" => init, find_volume(v, m, init, ok)
    PROVE  /\ mounted' \in Mounteds /\ card' \in Cards /\ initialized' \in BOOLEAN
           /\ v = "none" => mounted' = "off" /\ ~ok
           /\ mounted' = "stale" => m = "stale" /\ card' = card /\ card = "ready"
           /\ mounted' # "off" => initialized'
           /\ init => initialized' /\ card' = card
           /\ ok => mounted' # "off" /\ card' = "ready"
           /\ mounted' = m \/ mounted' \in {"off", "current"}
           /\ ok /\ mounted' # m => mounted' = "current"
PROOF
<1>1. CASE v = "none" /\ ~ok /\ mounted' = m /\ initialized' = init /\ UNCHANGED card
    BY <1>1 DEF TypeOK, Cards
<1>2. CASE /\ v # "none" /\ m # "off" /\ card = "ready"
           /\ mounted' = m /\ initialized' = init /\ UNCHANGED card
    BY <1>2 DEF TypeOK, Cards
<1>3. CASE v # "none" /\ disk_initialize(init) /\ Mounts /\ (ok => mounted' = "current")
    <2>1. card' \in Cards /\ initialized' = TRUE /\ (init => card' = card)
        BY <1>3, InitializeType
    <2>2. mounted' \in {"off", "current"} /\ (mounted' = "current" => card' = "ready")
        BY <1>3 DEF Mounts
    <2> QED
        BY <1>3, <2>1, <2>2 DEF Mounteds
<1> QED
    BY <1>1, <1>2, <1>3 DEF find_volume

LEMMA ReadsOnlyType ==
    ASSUME TypeOK, NEW m, ReadsOnly(m)
    PROVE  /\ data' \in [Numbers -> Contents] /\ wflag' \in BOOLEAN
           /\ data' # data => m # "off" /\ mounted' # "off"
PROOF
<1>1. CASE UNCHANGED data /\ wflag' \in {FALSE, wflag}
    BY <1>1 DEF TypeOK
<1>2. CASE /\ wflag' = FALSE /\ m # "off"
           /\ \E left \in SUBSET Writable : data' = Put(data, left, "fs")
    <2>1. PICK left \in SUBSET Writable : data' = Put(data, left, "fs")
        BY <1>2
    <2>2. data' \in [Numbers -> Contents]
        BY <2>1, PutType DEF TypeOK, Contents
    <2>3. mounted' = "off" => data' = data
        BY <2>1, NothingWritable, PutNothing DEF TypeOK
    <2> QED
        BY <1>2, <2>2, <2>3
<1> QED
    BY <1>1, <1>2 DEF ReadsOnly

-----------------------------------------------------------------------------
(* The invariant. *)

LEMMA InitInv == Init => Inv
PROOF
<1> SUFFICES ASSUME Init PROVE Inv
    OBVIOUS
<1>1. /\ state = "INIT" /\ nbr = 0 /\ initialized = FALSE /\ path = -1
      /\ vol0 = "none" /\ mounted = "off" /\ wflag = FALSE /\ card \in {"absent", "new"}
      /\ file = NoFile /\ shown = "none" /\ kept = FALSE /\ exact = FALSE
      /\ web = FALSE /\ file_system_mounted = FALSE /\ opened = FALSE
    BY DEF Init
<1>2. data \in [Numbers -> Contents]
    BY DEF Init, Formatted, Contents
<1>3. nbr \in 0 .. _VOLUMES + 1 /\ path \in -1 .. 1
    BY <1>1, SMT DEF _VOLUMES
<1>4. TypeOK
    BY <1>1, <1>2, <1>3, Zenon DEF TypeOK, States
<1> QED
    BY <1>1, <1>4
    DEF Inv, TypeNeedsVolume, TypeNeedsDrive, FilesNeedVolume, StaleIsForeign,
        FileStates, FileHolds, BadDataMeansFailure, NothingShownYet

\* MOUNT reaches the steps that use files only once a volume is mounted, and that
\* of the demonstration is never stale there.
LEMMA MountKeeps ==
    ASSUME Inv, MountCard
    PROVE  /\ Inv'
           /\ data' # data => vol0' = "fs"
PROOF
<1>1. PICK l \in FATFS_LinkDriver, ok \in BOOLEAN :
        /\ Link(l)
        /\ IF l.ret = 0 /\ l.path # -1
           THEN /\ vol0' = Registered(l)
                /\ find_volume(vol0', Cleared(vol0'), l.init, ok)
                /\ ReadsOnly(Cleared(vol0'))
           ELSE ~ok /\ initialized' = l.init /\ UNCHANGED <<fs, card, data>>
        /\ state' = IF ok THEN "WRITE_TEST_FILE" ELSE "END_WITH_ERROR"
    BY DEF MountCard
<1>2. /\ state = "MOUNT"
      /\ UNCHANGED <<file, shown, kept, exact, web, file_system_mounted, opened>>
    BY DEF MountCard, sess, server
<1>3. /\ l.ret \in {0, 1} /\ l.path \in -1 .. 1
      /\ l.nbr \in 0 .. _VOLUMES + 1 /\ l.nbr > 0 /\ l.init \in BOOLEAN
    BY LinkType DEF Inv
<1>4. nbr' = l.nbr /\ path' = l.path
    BY <1>1 DEF Link
<1>5. /\ vol0' \in {"none", "SDFatFs", "fs"} /\ mounted' \in Mounteds
      /\ card' \in Cards /\ initialized' \in BOOLEAN
      /\ data' \in [Numbers -> Contents] /\ wflag' \in BOOLEAN
      /\ vol0' = "none" => mounted' = "off"
      /\ mounted' # "off" => initialized'
      /\ ok => vol0' # "none" /\ initialized'
      /\ ok /\ mounted' = "stale" => vol0' = "fs"
      /\ data' # data => vol0' = "fs"
    <2>1. CASE l.ret = 0 /\ l.path # -1
        <3> DEFINE m == Cleared(vol0')
        <3>1. /\ vol0' = Registered(l) /\ find_volume(vol0', m, l.init, ok)
              /\ ReadsOnly(m)
            BY <1>1, <2>1
        <3>2. vol0' \in {"none", "SDFatFs", "fs"} /\ (vol0' = "none" => vol0 = "none")
            BY <3>1 DEF Registered, Inv, TypeOK
        <3>3. m \in Mounteds /\ (vol0' = "none" => m = "off")
              /\ (vol0' = "SDFatFs" => m = "off")
            BY <3>2 DEF Cleared, Inv, TypeOK, TypeNeedsVolume, Mounteds
        <3>8. m # "off" => l.init
            BY <1>1, LinkedDrive DEF Inv, Cleared
        <3>4. TypeOK
            BY DEF Inv
        <3> HIDE DEF m
        <3>5. /\ mounted' \in Mounteds /\ card' \in Cards /\ initialized' \in BOOLEAN
              /\ vol0' = "none" => mounted' = "off" /\ ~ok
              /\ mounted' = "stale" => m = "stale"
              /\ ok => mounted' # "off"
              /\ mounted' # "off" => initialized'
            BY <1>3, <3>1, <3>3, <3>4, <3>8, FindVolume
        <3>7. /\ data' \in [Numbers -> Contents] /\ wflag' \in BOOLEAN
              /\ data' # data => m # "off"
            BY <3>1, <3>4, ReadsOnlyType
        <3> QED
            BY <3>2, <3>3, <3>5, <3>7
    <2>2. CASE ~(l.ret = 0 /\ l.path # -1)
        <3>1. ~ok /\ initialized' = l.init /\ UNCHANGED <<vol0, mounted, wflag, card, data>>
            BY <1>1, <2>2 DEF fs
        <3> QED
            BY <1>3, <3>1, LinkedDrive DEF Inv, TypeOK, TypeNeedsVolume, Mounteds, Cards
    <2> QED
        BY <2>1, <2>2
<1>6. state' \in {"WRITE_TEST_FILE", "END_WITH_ERROR"} /\ (state' = "WRITE_TEST_FILE" => ok)
    BY <1>1
<1>7. state' \in States /\ UNCHANGED <<web, file, shown, kept, exact>>
      /\ shown = "none" /\ kept = FALSE
    BY <1>2, <1>6 DEF States, Inv, NothingShownYet
<1>8. TypeOK'
    BY <1>2, <1>3, <1>4, <1>5, <1>7 DEF Inv, TypeOK, Mounteds, Cards
<1>9. nbr' > 0 /\ FilesNeedVolume' /\ TypeNeedsDrive' /\ TypeNeedsVolume'
    BY <1>3, <1>4, <1>5, <1>6 DEF FilesNeedVolume, TypeNeedsDrive, TypeNeedsVolume
<1>10. StaleIsForeign'
    BY <1>5, <1>6 DEF StaleIsForeign, FileStates
<1>11. FileHolds' /\ BadDataMeansFailure' /\ NothingShownYet'
    BY <1>6, <1>7, Zenon DEF FileHolds, BadDataMeansFailure, NothingShownYet
<1> QED
    BY <1>5, <1>8, <1>9, <1>10, <1>11 DEF Inv

\* What a step of the demonstration that uses files finds and leaves: the card is
\* not initialised again, and only a volume that the web server left is stale.
LEMMA FileStep ==
    ASSUME Inv, state \in FileStates, NEW ok, find_volume(vol0, mounted, initialized, ok)
    PROVE  /\ mounted' \in Mounteds /\ card' = card /\ initialized' = TRUE
           /\ mounted' = "stale" => vol0 = "fs"
           /\ ok => card = "ready" /\ mounted' \in {mounted, "current"}
PROOF
<1>1. TypeOK /\ vol0 # "none" /\ initialized = TRUE
    BY DEF Inv, TypeOK, FilesNeedVolume, FileStates
<1>2. mounted \in Mounteds
    BY <1>1 DEF TypeOK, Mounteds
<1>3. /\ mounted' \in Mounteds /\ card' = card /\ initialized' /\ initialized' \in BOOLEAN
      /\ mounted' = "stale" => mounted = "stale" /\ card = "ready"
      /\ ok => card' = "ready"
      /\ ok /\ mounted' # mounted => mounted' = "current"
    BY <1>1, <1>2, FindVolume
<1>4. mounted' = "stale" => vol0 = "fs"
    BY <1>3 DEF Inv, StaleIsForeign
<1> QED
    BY <1>3, <1>4

\* Of a step that uses files: it keeps the invariant but for what it says of the
\* file, and what is written goes to the volume's card or through the web server's.
LEMMA FileStepKeeps ==
    ASSUME Inv, state \in FileStates, NEW ok, find_volume(vol0, mounted, initialized, ok),
           UNCHANGED <<nbr, path, vol0, server>>,
           state' \in States, data' \in [Numbers -> Contents], wflag' \in BOOLEAN,
           file' \in Numbers \cup {NoFile}, shown' \in {"none", "correct", "bad"},
           kept' \in BOOLEAN, exact' \in BOOLEAN
    PROVE  /\ TypeOK' /\ TypeNeedsVolume' /\ TypeNeedsDrive' /\ FilesNeedVolume'
           /\ StaleIsForeign'
PROOF
<1>1. /\ mounted' \in Mounteds /\ card' = card /\ initialized' = TRUE
      /\ mounted' = "stale" => vol0 = "fs"
    BY FileStep
<1>2. vol0' = vol0 /\ nbr' = nbr /\ path' = path
      /\ UNCHANGED <<web, file_system_mounted, opened>>
    BY DEF server
<1>3. vol0 # "none" /\ nbr > 0
    BY DEF Inv, FilesNeedVolume, FileStates
<1>4. TypeOK'
    BY <1>1, <1>2 DEF Inv, TypeOK, Mounteds
<1>5. TypeNeedsVolume' /\ TypeNeedsDrive' /\ FilesNeedVolume' /\ StaleIsForeign'
    BY <1>1, <1>2, <1>3, Zenon
    DEF TypeNeedsVolume, TypeNeedsDrive, FilesNeedVolume, StaleIsForeign
<1> QED
    BY <1>4, <1>5

\* WRITE_TEST_FILE leaves the file on the card when its steps succeed.
LEMMA WriteKeeps ==
    ASSUME Inv, WriteTestFile
    PROVE  /\ Inv'
           /\ data' # data => mounted' = "current" \/ vol0' = "fs"
PROOF
<1>1. PICK open \in BOOLEAN, close \in BOOLEAN :
        /\ find_volume(vol0, mounted, initialized, open)
        /\ wflag' \in BOOLEAN
        /\ IF open
           THEN \E s \in Writable : \E before, after \in SUBSET (Writable \ {s}),
                                       own \in IF close THEN {{s}} ELSE {{}, {s}} :
                    /\ data' = Put(Put(Put(data, before, "fs"), own, "test"), after, "fs")
                    /\ file' = s /\ kept' = close
                    /\ exact' = (mounted' = "current" /\ Fits(before \cup {s} \cup after))
           ELSE /\ \E before \in SUBSET Writable : data' = Put(data, before, "fs")
                /\ UNCHANGED <<file, kept, exact>>
    BY DEF WriteTestFile
<1>2. /\ state = "WRITE_TEST_FILE" /\ state' = "READ_TEST_FILE"
      /\ UNCHANGED <<nbr, path, vol0, shown, server>>
    BY DEF WriteTestFile
<1>3. state \in FileStates /\ state' \in States /\ shown' = "none" /\ kept = FALSE
    BY <1>2 DEF FileStates, States, Inv, NothingShownYet
<1>4. /\ mounted' \in Mounteds /\ card' = card
      /\ mounted' = "stale" => vol0 = "fs"
    BY <1>1, <1>3, FileStep
<1>5. data \in [Numbers -> Contents] /\ kept \in BOOLEAN /\ exact \in BOOLEAN
      /\ file \in Numbers \cup {NoFile} /\ "fs" \in Contents /\ "test" \in Contents
    BY DEF Inv, TypeOK, Contents
<1>6. /\ data' \in [Numbers -> Contents] /\ file' \in Numbers \cup {NoFile}
      /\ kept' \in BOOLEAN /\ exact' \in BOOLEAN
      /\ data' # data => mounted' # "off"
      /\ FileHolds'
    <2>1. CASE open
        <3>0. PICK s \in Writable : \E before, after \in SUBSET (Writable \ {s}),
                                      own \in IF close THEN {{s}} ELSE {{}, {s}} :
                /\ data' = Put(Put(Put(data, before, "fs"), own, "test"), after, "fs")
                /\ file' = s /\ kept' = close
                /\ exact' = (mounted' = "current" /\ Fits(before \cup {s} \cup after))
            BY <1>1, <2>1
        <3>1. PICK before \in SUBSET (Writable \ {s}), after \in SUBSET (Writable \ {s}),
                   own \in IF close THEN {{s}} ELSE {{}, {s}} :
                /\ data' = Put(Put(Put(data, before, "fs"), own, "test"), after, "fs")
                /\ file' = s /\ kept' = close
                /\ exact' = (mounted' = "current" /\ Fits(before \cup {s} \cup after))
            BY <3>0
        <3>2. s \in Numbers /\ after \in SUBSET (Numbers \ {s}) /\ mounted' # "off"
            BY <3>1, WritableType, NothingWritable
        <3>3. data' \in [Numbers -> Contents]
            <4> DEFINE first == Put(data, before, "fs")
                       second == Put(first, own, "test")
            <4>1. first \in [Numbers -> Contents]
                BY <1>5, PutType
            <4> HIDE DEF first
            <4>2. second \in [Numbers -> Contents]
                BY <1>5, <4>1, PutType
            <4> HIDE DEF second
            <4>3. Put(second, after, "fs") \in [Numbers -> Contents]
                BY <1>5, <4>2, PutType
            <4> QED
                BY <3>1, <4>3 DEF first, second
        <3>4. ASSUME kept', exact'
              PROVE  Fits({s}) /\ mounted' = "current" /\ data'[s] = "test"
            <4>1. close /\ own = {s} /\ mounted' = "current"
                  /\ Fits(before \cup {s} \cup after)
                BY <3>1, <3>4
            <4>2. Fits({s}) /\ Fits({s} \cup after)
                BY <4>1 DEF Fits
            <4>3. data' = Put(Put(Put(data, before, "fs"), {s}, "test"), after, "fs")
                BY <3>1, <4>1
            <4> QED
                BY <3>2, <4>1, <4>2, <4>3, PutHolds
        <3>5. FileHolds'
            <4> SUFFICES ASSUME kept', exact'
                         PROVE  /\ file' \in Numbers /\ Fits({file'})
                                /\ mounted' = "current" /\ data'[file'] = "test"
                BY DEF FileHolds, Fits
            <4> QED
                BY <3>1, <3>2, <3>4
        <3> QED
            BY <3>1, <3>2, <3>3, <3>5
    <2>2. CASE ~open
        <3>1. PICK before \in SUBSET Writable : data' = Put(data, before, "fs")
            BY <1>1, <2>2
        <3>2. data' \in [Numbers -> Contents] /\ UNCHANGED <<file, kept, exact>>
            BY <1>1, <1>5, <2>2, <3>1, PutType
        <3>3. mounted' = "off" => data' = data
            BY <1>5, <3>1, NothingWritable, PutNothing
        <3>4. FileHolds'
            BY <1>3, <3>2 DEF FileHolds
        <3> QED
            BY <1>5, <3>2, <3>3, <3>4
    <2> QED
        BY <2>1, <2>2
<1>7. /\ TypeOK' /\ TypeNeedsVolume' /\ TypeNeedsDrive' /\ FilesNeedVolume'
      /\ StaleIsForeign'
    BY <1>1, <1>2, <1>3, <1>6, FileStepKeeps
<1>8. BadDataMeansFailure' /\ NothingShownYet'
    BY <1>2, <1>3 DEF BadDataMeansFailure, NothingShownYet
<1>9. data' # data => mounted' = "current" \/ vol0' = "fs"
    BY <1>2, <1>4, <1>6 DEF Mounteds
<1> QED
    BY <1>6, <1>7, <1>8, <1>9 DEF Inv

\* READ_TEST_FILE finds what was written, unless a step failed, the card changed or
\* an address did not fit.
LEMMA ReadKeeps ==
    ASSUME Inv, ReadTestFile
    PROVE  /\ Inv'
           /\ data' # data => mounted' = "current" \/ vol0' = "fs"
PROOF
<1>1. PICK open \in BOOLEAN, read \in BOOLEAN :
        /\ find_volume(vol0, mounted, initialized, open) /\ ReadsOnly(mounted)
        /\ kept' = (kept /\ open /\ read)
        /\ IF ~open THEN UNCHANGED shown
           ELSE IF ~read THEN shown' = "bad"
           ELSE IF file = NoFile \/ mounted' # mounted THEN shown' \in {"correct", "bad"}
           ELSE shown' = IF data[Address(file)] = "test" THEN "correct" ELSE "bad"
    BY DEF ReadTestFile
<1>2. /\ state = "READ_TEST_FILE" /\ state' = "DELETE_TEST_FILE"
      /\ UNCHANGED <<nbr, path, vol0, file, exact, server>>
    BY DEF ReadTestFile
<1>3. state \in FileStates /\ state' \in States
    BY <1>2 DEF FileStates, States
<1>4. /\ mounted' \in Mounteds
      /\ mounted' = "stale" => vol0 = "fs"
      /\ open => card = "ready" /\ mounted' \in {mounted, "current"}
    BY <1>1, <1>3, FileStep
<1>5. /\ data' \in [Numbers -> Contents] /\ wflag' \in BOOLEAN
      /\ data' # data => mounted' # "off"
    BY <1>1, ReadsOnlyType DEF Inv
<1>6. shown' \in {"none", "correct", "bad"} /\ kept' \in BOOLEAN /\ exact' \in BOOLEAN
      /\ file' \in Numbers \cup {NoFile}
    BY <1>1, <1>2 DEF Inv, TypeOK
<1>7. ASSUME kept', exact' PROVE shown' # "bad"
    <2>1. kept /\ exact /\ open /\ read
        BY <1>1, <1>2, <1>7
    <2>2. /\ file \in Numbers /\ Fits({file})
          /\ mounted = "current" /\ data[file] = "test"
        BY <1>2, <1>4, <2>1 DEF Inv, FileHolds
    <2>3. mounted' = mounted /\ file # NoFile /\ Address(file) = file
        BY <1>4, <2>1, <2>2, AddressFits DEF NoFile, Numbers
    <2> QED
        BY <1>1, <2>1, <2>2, <2>3
<1>8. /\ TypeOK' /\ TypeNeedsVolume' /\ TypeNeedsDrive' /\ FilesNeedVolume'
      /\ StaleIsForeign'
    BY <1>1, <1>2, <1>3, <1>5, <1>6, FileStepKeeps
<1>9. FileHolds' /\ BadDataMeansFailure' /\ NothingShownYet'
    BY <1>2, <1>7 DEF FileHolds, BadDataMeansFailure, NothingShownYet
<1> QED
    BY <1>2, <1>4, <1>5, <1>8, <1>9 DEF Inv, Mounteds

LEMMA DeleteKeeps ==
    ASSUME Inv, DeleteTestFile
    PROVE  /\ Inv'
           /\ data' # data => mounted' = "current" \/ vol0' = "fs"
PROOF
<1>1. PICK ok \in BOOLEAN :
        find_volume(vol0, mounted, initialized, ok) /\ wflag' \in BOOLEAN
    BY DEF DeleteTestFile
<1>2. PICK written \in SUBSET Writable : data' = Put(data, written, "fs")
    BY DEF DeleteTestFile
<1>3. /\ state = "DELETE_TEST_FILE" /\ state' = "IDLE"
      /\ UNCHANGED <<nbr, path, vol0, file, shown, kept, exact, server>>
    BY DEF DeleteTestFile, sess
<1>4. state \in FileStates /\ state' \in States
    BY <1>3 DEF FileStates, States
<1>5. mounted' \in Mounteds /\ (mounted' = "stale" => vol0 = "fs")
    BY <1>1, <1>4, FileStep
<1>6. data' \in [Numbers -> Contents]
    BY <1>2, PutType DEF Inv, TypeOK, Contents
<1>7. data' # data => mounted' # "off"
    BY <1>2, NothingWritable, PutNothing DEF Inv, TypeOK
<1>8. shown' \in {"none", "correct", "bad"} /\ kept' \in BOOLEAN /\ exact' \in BOOLEAN
      /\ file' \in Numbers \cup {NoFile}
    BY <1>3 DEF Inv, TypeOK
<1>9. /\ TypeOK' /\ TypeNeedsVolume' /\ TypeNeedsDrive' /\ FilesNeedVolume'
      /\ StaleIsForeign'
    BY <1>1, <1>3, <1>4, <1>6, <1>8, FileStepKeeps
<1>10. FileHolds' /\ BadDataMeansFailure' /\ NothingShownYet'
    BY <1>3 DEF Inv, FileHolds, BadDataMeansFailure, NothingShownYet
<1> QED
    BY <1>3, <1>5, <1>7, <1>9, <1>10 DEF Inv, Mounteds

\* The web server never runs while the demonstration uses files.
LEMMA WebKeeps ==
    ASSUME Inv, WebStarts \/ WebOpens \/ WebFails \/ WebReads \/ WebCloses
    PROVE  /\ Inv'
           /\ data' # data => vol0' = "fs" \/ file_system_mounted
PROOF
<1>1. state = "INIT" /\ state' = "INIT" /\ UNCHANGED <<file, shown, kept, exact>>
    BY DEF WebStarts, WebOpens, WebFails, WebReads, WebCloses, sess
<1>2. TypeOK /\ TypeNeedsVolume /\ TypeNeedsDrive /\ BadDataMeansFailure
    BY DEF Inv
<1>3. /\ TypeOK' /\ TypeNeedsVolume' /\ TypeNeedsDrive'
      /\ data' # data => vol0' = "fs" \/ file_system_mounted
    <2>1. CASE WebStarts
        <3>1. PICK l \in FATFS_LinkDriver :
                /\ Link(l) /\ initialized' = (l.init \/ l.ret = 0)
                /\ IF card = "absent" THEN UNCHANGED card ELSE card' \in {"new", "ready"}
                /\ IF l.ret = 0 /\ (l.init \/ card' = "ready")
                   THEN vol0' = "SDFatFs" /\ Mounts /\ wflag' = FALSE
                   ELSE UNCHANGED fs
            BY <2>1 DEF WebStarts
        <3>2. /\ l.path \in -1 .. 1 /\ l.nbr \in 0 .. _VOLUMES + 1 /\ l.nbr > 0
              /\ l.init \in BOOLEAN /\ l.ret \in {0, 1}
              /\ mounted # "off" => l.init
            BY <1>2, LinkType, LinkedDrive
        <3>3. web' = TRUE /\ nbr' = l.nbr /\ path' = l.path
              /\ UNCHANGED <<data, file_system_mounted, opened>>
            BY <2>1, <3>1 DEF WebStarts, Link
        <3>4. card' \in Cards /\ initialized' \in BOOLEAN
            BY <1>2, <3>1, <3>2 DEF TypeOK, Cards
        <3>5. CASE l.ret = 0 /\ (l.init \/ card' = "ready")
            <4>1. vol0' = "SDFatFs" /\ mounted' \in {"off", "current"}
                  /\ wflag' = FALSE /\ initialized'
                BY <3>1, <3>5 DEF Mounts
            <4> QED
                BY <1>1, <1>2, <3>2, <3>3, <3>4, <4>1
                DEF TypeOK, TypeNeedsVolume, TypeNeedsDrive, Cards
        <3>6. CASE ~(l.ret = 0 /\ (l.init \/ card' = "ready"))
            <4>1. UNCHANGED <<vol0, mounted, wflag>>
                BY <3>1, <3>6 DEF fs
            <4>2. mounted # "off" => initialized'
                BY <3>1, <3>2
            <4> QED
                BY <1>1, <1>2, <3>2, <3>3, <3>4, <4>1, <4>2
                DEF TypeOK, TypeNeedsVolume, TypeNeedsDrive, Cards
        <3> QED
            BY <3>5, <3>6
    <2>2. ASSUME NEW ok \in BOOLEAN, web, UNCHANGED <<nbr, path, web>>,
                 vol0' = IF file_system_mounted THEN vol0 ELSE "fs",
                 NEW type, type = IF file_system_mounted THEN mounted ELSE "off",
                 find_volume(vol0', type, initialized, ok), ReadsOnly(type),
                 opened' \in BOOLEAN, file_system_mounted' \in BOOLEAN
          PROVE  /\ TypeOK' /\ TypeNeedsVolume' /\ TypeNeedsDrive'
                 /\ data' # data => vol0' = "fs" \/ file_system_mounted
        <3>1. /\ vol0' \in {"none", "SDFatFs", "fs"} /\ type \in Mounteds
              /\ vol0' = "none" => type = "off"
              /\ type # "off" => initialized
              /\ initialized \in BOOLEAN /\ nbr > 0
            BY <1>2, <2>2 DEF TypeOK, TypeNeedsVolume, TypeNeedsDrive, Mounteds
        <3>2. /\ mounted' \in Mounteds /\ card' \in Cards /\ initialized' \in BOOLEAN
              /\ vol0' = "none" => mounted' = "off"
              /\ mounted' # "off" => initialized'
            BY <1>2, <2>2, <3>1, FindVolume
        <3>3. data' \in [Numbers -> Contents] /\ wflag' \in BOOLEAN
            BY <1>2, <2>2, ReadsOnlyType
        <3>4. TypeOK'
            BY <1>1, <1>2, <2>2, <3>1, <3>2, <3>3 DEF TypeOK, Mounteds, Cards
        <3> QED
            BY <2>2, <3>1, <3>2, <3>4 DEF TypeNeedsVolume, TypeNeedsDrive
    <2>3. CASE WebOpens
        <3>1. /\ web /\ UNCHANGED <<nbr, path, web>>
              /\ vol0' = IF file_system_mounted THEN vol0 ELSE "fs"
              /\ opened' \in BOOLEAN /\ file_system_mounted' \in BOOLEAN
            BY <1>2, <2>3 DEF WebOpens, TypeOK
        <3>2. /\ find_volume(vol0', IF file_system_mounted THEN mounted ELSE "off",
                             initialized, TRUE)
              /\ ReadsOnly(IF file_system_mounted THEN mounted ELSE "off")
            BY <2>3 DEF WebOpens
        <3> QED
            BY <2>2, <3>1, <3>2
    <2>4. CASE WebFails
        <3>1. /\ web /\ UNCHANGED <<nbr, path, web>> /\ opened' \in BOOLEAN
            BY <1>2, <2>4 DEF WebFails, TypeOK
        <3>2. CASE opened
            <4>1. /\ vol0' = IF file_system_mounted THEN vol0 ELSE "fs"
                  /\ find_volume(vol0', IF file_system_mounted THEN mounted ELSE "off",
                                 initialized, FALSE)
                  /\ ReadsOnly(IF file_system_mounted THEN mounted ELSE "off")
                  /\ file_system_mounted' \in BOOLEAN
                BY <1>2, <2>4, <3>2 DEF WebFails, TypeOK
            <4> QED
                BY <2>2, <3>1, <4>1
        <3>3. CASE ~opened
            <4>1. /\ disk_initialize(initialized) \/ UNCHANGED <<initialized, card>>
                  /\ vol0' = "none" /\ mounted' = "off" /\ wflag' = FALSE
                  /\ file_system_mounted' = FALSE /\ UNCHANGED data
                BY <2>4, <3>3 DEF WebFails
            <4>2. card' \in Cards /\ initialized' \in BOOLEAN
                BY <1>2, <4>1, InitializeType DEF TypeOK, Cards
            <4>3. nbr > 0
                BY <1>2, <3>1 DEF TypeNeedsDrive
            <4> QED
                BY <1>1, <1>2, <3>1, <4>1, <4>2, <4>3
                DEF TypeOK, TypeNeedsVolume, TypeNeedsDrive, Cards
        <3> QED
            BY <3>2, <3>3
    <2>5. CASE WebReads
        <3>1. /\ vol0 = "fs" /\ mounted' = mounted
              /\ UNCHANGED <<nbr, initialized, path, vol0, card, web,
                             file_system_mounted, opened>>
            BY <2>5 DEF WebReads, table, server
        <3>2. data' \in [Numbers -> Contents] /\ wflag' \in BOOLEAN
            BY <1>2, <2>5, ReadsOnlyType DEF WebReads
        <3> QED
            BY <1>1, <1>2, <3>1, <3>2 DEF TypeOK, TypeNeedsVolume, TypeNeedsDrive
    <2>6. CASE WebCloses
        <3>1. /\ UNCHANGED <<nbr, initialized, path, card, data, web>>
              /\ opened' = FALSE
              /\ \/ /\ vol0' = "none" /\ mounted' = "off" /\ wflag' = FALSE
                    /\ file_system_mounted' = FALSE
                 \/ UNCHANGED <<vol0, mounted, wflag, file_system_mounted>>
            BY <2>6 DEF WebCloses, table, fs
        <3>2. /\ vol0' \in {"none", "SDFatFs", "fs"} /\ mounted' \in Mounteds
              /\ wflag' \in BOOLEAN /\ file_system_mounted' \in BOOLEAN
              /\ vol0' = "none" => mounted' = "off"
              /\ mounted' # "off" => mounted # "off"
            BY <1>2, <3>1 DEF TypeOK, TypeNeedsVolume, Mounteds
        <3>3. TypeOK'
            BY <1>1, <1>2, <3>1, <3>2 DEF TypeOK, Mounteds
        <3> QED
            BY <1>2, <3>1, <3>2, <3>3 DEF TypeNeedsVolume, TypeNeedsDrive
    <2> QED
        BY <2>1, <2>3, <2>4, <2>5, <2>6
<1>4. FilesNeedVolume' /\ StaleIsForeign' /\ FileHolds' /\ BadDataMeansFailure'
      /\ NothingShownYet'
    BY <1>1, <1>2
    DEF FilesNeedVolume, StaleIsForeign, FileStates, FileHolds, BadDataMeansFailure,
        NothingShownYet
<1> QED
    BY <1>3, <1>4 DEF Inv

\* The steps of nobody's files, and what the hand of somebody does to the card.
LEMMA RestKeeps ==
    ASSUME Inv, Initialise \/ Rest \/ CardOut \/ CardIn \/ UNCHANGED vars
    PROVE  /\ Inv'
           /\ data' # data => card = "absent"
PROOF
<1> USE DEF Inv, TypeNeedsVolume, TypeNeedsDrive, FilesNeedVolume, StaleIsForeign,
            FileStates, FileHolds, BadDataMeansFailure, NothingShownYet
<1>1. CASE Initialise
    <2>1. /\ state' \in {"MOUNT", "END_WITH_ERROR"}
          /\ file' = NoFile /\ shown' = "none" /\ kept' = FALSE /\ exact' = FALSE
          /\ UNCHANGED <<nbr, initialized, path, vol0, mounted, wflag, data,
                         web, file_system_mounted, opened>>
        BY <1>1 DEF Initialise, table, fs, server
    <2>2. card' \in {"absent", "new", "ready"}
        BY <1>1 DEF Initialise, BSP_SD_Init
    <2> QED
        BY <2>1, <2>2 DEF TypeOK, States
<1>2. CASE Rest
    BY <1>2 DEF Rest, EndWithError, Finish, TypeOK, States, table, fs, sess, server
<1>3. CASE CardOut
    BY <1>3 DEF CardOut, TypeOK, table, sess, server
<1>4. CASE CardIn
    <2>1. Formatted \in [Numbers -> Contents]
        BY DEF Formatted, Contents
    <2>2. data' \in [Numbers -> Contents]
        BY <1>4, <2>1 DEF CardIn, TypeOK
    <2>3. /\ card = "absent" /\ card' = "new"
          /\ UNCHANGED <<state, nbr, initialized, path, vol0, mounted, wflag, file, shown,
                         kept, exact, web, file_system_mounted, opened>>
        BY <1>4 DEF CardIn, table, fs, sess, server
    <2> QED
        BY <2>2, <2>3 DEF TypeOK
<1>5. CASE UNCHANGED vars
    BY <1>5 DEF vars, TypeOK, table, fs, sess, server
<1> QED
    BY <1>1, <1>2, <1>3, <1>4, <1>5

LEMMA NextInv ==
    ASSUME Inv, [Next]_vars
    PROVE  /\ Inv'
           /\ data' # data /\ card # "absent" =>
                mounted' = "current" \/ vol0' = "fs" \/ file_system_mounted
PROOF
<1>1. CASE MountCard
    BY <1>1, MountKeeps
<1>2. CASE WriteTestFile
    BY <1>2, WriteKeeps
<1>3. CASE ReadTestFile
    BY <1>3, ReadKeeps
<1>4. CASE DeleteTestFile
    BY <1>4, DeleteKeeps
<1>5. CASE WebStarts \/ WebOpens \/ WebFails \/ WebReads \/ WebCloses
    BY <1>5, WebKeeps
<1>6. CASE Initialise \/ Rest \/ CardOut \/ CardIn \/ UNCHANGED vars
    BY <1>6, RestKeeps
<1> QED
    BY <1>1, <1>2, <1>3, <1>4, <1>5, <1>6 DEF Next

THEOREM Invariance == Spec => []Inv
PROOF BY InitInv, NextInv, PTL DEF Spec

-----------------------------------------------------------------------------
\* Every variable keeps to its type: even a third link leaves a table and a path
\* that the next calls treat.
THEOREM TypeCorrect == Spec => []TypeOK
PROOF
<1>1. Inv => TypeOK
    BY DEF Inv
<1> QED
    BY <1>1, Invariance, PTL

\* "Bad datas read" tells of a step that failed, of an address beyond a word or of
\* another card, for every card and every choice of the sectors that FatFs writes
\* around the file.
THEOREM BadDataExplained == Spec => []BadDataMeansFailure
PROOF
<1>1. Inv => BadDataMeansFailure
    BY DEF Inv
<1> QED
    BY <1>1, Invariance, PTL

\* Files are only used on a volume that is registered over a drive linked and seen
\* by disk_initialize, in any order of the sessions of both applications.
THEOREM FilesOnVolume == Spec => []FilesNeedVolume
PROOF
<1>1. Inv => FilesNeedVolume
    BY DEF Inv
<1> QED
    BY <1>1, Invariance, PTL

\* The demonstration writes through its own volume only on the card the volume was
\* read from, in any order of cards, sessions and drivers, and for every choice of
\* the sectors that FatFs writes: what is stale is the web server's.
THEOREM OwnCardOnly == Spec => WritesItsVolume
PROOF
<1>1. Inv /\ [Next]_vars
        => [data' # data /\ card # "absent" =>
                mounted' = "current" \/ vol0' = "fs" \/ file_system_mounted]_vars
    BY NextInv
<1> QED
    BY <1>1, Invariance, PTL DEF Spec, WritesItsVolume
=============================================================================
