----------------------------- MODULE AltMainProofs -----------------------------
(***************************************************************************)
(* Theorems about start-up: the descriptors from boot to exit, for every   *)
(* size of the pool, every set of devices and file systems, and every      *)
(* program; the loading of the image before, for every layout and every    *)
(* reset; and the lists of the devices that are not files.                 *)
(***************************************************************************)
EXTENDS AltMain, AltBoot, AltDeviceLists, WellFoundedInduction, TLAPS

(***************************************************************************)
(* The inductive invariant.  A lock stands in the way of the descriptors   *)
(* above it alone, and there is at most the highest one: that is what      *)
(* makes the loop of alt_fd_lock(), which ends too early, good enough.     *)
(***************************************************************************)
FreeIsFree == \A fd \in Fds : ~Used(alt_fd_list, fd) => alt_fd_list[fd] = Free
StandardUsed == \A fd \in Fds : fd <= 2 => Used(alt_fd_list, fd)
HighWater == \A fd \in Fds : Used(alt_fd_list, fd) /\ fd > 2 => fd <= alt_max_fd
DevFlags ==
  \A fd \in Fds : "DEV" \in alt_fd_list[fd].flags =>
    alt_fd_list[fd].dev \in Devices /\ alt_max_fd > 2
LockFlags == \A fd \in Fds : Holds(fd) => "DEV" \in alt_fd_list[fd].flags
LockOrder ==
  \A fd, other \in Fds :
    Holds(fd) /\ SameDevice(fd, other) => fd < other /\ other <= alt_max_fd
PoolTypeOK ==
  /\ alt_fd_list \in [Fds -> [dev : Devices \cup FileSystems \cup {NoDev},
                              mode : {"O_RDONLY", "O_WRONLY", "O_RDWR"},
                              flags : SUBSET Flags]]
  /\ alt_max_fd \in -1 .. ALT_MAX_FD - 1
  /\ held \subseteq 3 .. ALT_MAX_FD - 1

PoolInv ==
  /\ PoolTypeOK /\ NoDescriptorLeaks
  /\ FreeIsFree /\ StandardUsed /\ HighWater
  /\ DevFlags /\ LockFlags /\ LockOrder

Booting == phase \in {"sys_init", "stdout", "stdin", "stderr"}
BootUnlocked == Booting => \A fd \in Fds : ~Holds(fd)

FileInv == FileTypeOK /\ PoolInv /\ BootUnlocked

-----------------------------------------------------------------------------
(***************************************************************************)
(* What searching finds.                                                   *)
(***************************************************************************)
LEMMA LeastExists ==
  ASSUME NEW S, S \subseteq Nat, S # {}
  PROVE  \E i \in S : \A j \in S : i <= j
<1>1. PICK i \in S : \A j \in S : ~ (<<j, i>> \in OpToRel(<, Nat))
  BY WFMin, NatLessThanWellFounded
<1>2. \A j \in S : ~(j < i)
  BY <1>1 DEF OpToRel
<1> QED
  BY <1>2

\* alt_find_dev() and alt_find_file() return a member of their list, or nothing.
LEMMA FoundDevice ==
  ASSUME FileTypeOK, NEW file
  PROVE  alt_find_dev(file) \in Devices \cup {NoDev}
<1> DEFINE hits == {i \in DOMAIN alt_dev_list : NameOf[alt_dev_list[i]] = file}
<1>1. hits \subseteq Nat
  BY DEF FileTypeOK
<1>2. CASE hits = {}
  BY <1>2 DEF alt_find_dev, FirstOf
<1>3. CASE hits # {}
  <2>1. \E i \in hits : \A j \in hits : i <= j
    BY <1>1, <1>3, LeastExists
  <2>2. (CHOOSE i \in hits : \A j \in hits : i <= j) \in DOMAIN alt_dev_list
    BY <2>1
  <2>3. \A i \in DOMAIN alt_dev_list : alt_dev_list[i] \in Devices
    BY DEF FileTypeOK
  <2>4. alt_find_dev(file) = alt_dev_list[CHOOSE i \in hits : \A j \in hits : i <= j]
    BY <1>3 DEF alt_find_dev, FirstOf
  <2> QED
    BY <2>2, <2>3, <2>4
<1> QED
  BY <1>2, <1>3

LEMMA FoundFileSystem ==
  ASSUME FileTypeOK, NEW file
  PROVE  alt_find_file(file) \in FileSystems \cup {NoDev}
<1> DEFINE hits == {i \in DOMAIN alt_fs_list : PrefixOf(NameOf[alt_fs_list[i]], file)}
<1>1. hits \subseteq Nat
  BY DEF FileTypeOK
<1>2. CASE hits = {}
  BY <1>2 DEF alt_find_file, FirstOf
<1>3. CASE hits # {}
  <2>1. \E i \in hits : \A j \in hits : i <= j
    BY <1>1, <1>3, LeastExists
  <2>2. (CHOOSE i \in hits : \A j \in hits : i <= j) \in DOMAIN alt_fs_list
    BY <2>1
  <2>3. \A i \in DOMAIN alt_fs_list : alt_fs_list[i] \in FileSystems
    BY DEF FileTypeOK
  <2>4. alt_find_file(file) = alt_fs_list[CHOOSE i \in hits : \A j \in hits : i <= j]
    BY <1>3 DEF alt_find_file, FirstOf
  <2> QED
    BY <2>2, <2>3, <2>4
<1> QED
  BY <1>2, <1>3

\* alt_get_fd() returns a free descriptor above the standard streams, or -1.
LEMMA FreeDescriptor ==
  ASSUME FileTypeOK, StandardUsed
  PROVE  LET fd == alt_get_fd(alt_fd_list)
         IN  fd = -1 \/ (fd \in Fds /\ fd > 2 /\ ~Used(alt_fd_list, fd))
<1> DEFINE free == {fd \in Fds : ~Used(alt_fd_list, fd)}
<1>1. free \subseteq Nat /\ free \subseteq Fds
  BY FileAssumption DEF Fds
<1>2. CASE free = {}
  BY <1>2 DEF alt_get_fd
<1>3. CASE free # {}
  <2>1. \E i \in free : \A j \in free : i <= j
    BY <1>1, <1>3, LeastExists
  <2>2. (CHOOSE i \in free : \A j \in free : i <= j) \in free
    BY <2>1
  <2>3. alt_get_fd(alt_fd_list) \in free
    BY <2>2, <1>3 DEF alt_get_fd
  <2>4. \A fd \in free : fd > 2
    BY FileAssumption DEF StandardUsed, Fds
  <2> QED
    BY <2>3, <2>4
<1> QED
  BY <1>2, <1>3

-----------------------------------------------------------------------------
(***************************************************************************)
(* What open() does to the pool: it gives back what it took, or the pool   *)
(* has one more descriptor, on a device that nobody has locked.            *)
(***************************************************************************)
Untouched(opened) == opened.ret.value = -1 /\ opened.fds = alt_fd_list

Unlocked(dev) == \A fd \in Fds : alt_fd_list[fd].dev = dev => ~Holds(fd)

Claimed(fd, dev, flags, max) ==
  /\ fd \in Fds /\ fd > 2 /\ ~Used(alt_fd_list, fd)
  /\ dev \in Devices \cup FileSystems /\ Unlocked(dev)
  /\ flags \subseteq Flags /\ "EXCL" \notin flags
  /\ "DEV" \in flags => dev \in Devices
  /\ fd <= max

OpenedAt(opened, fd, dev, mode, flags) ==
  /\ opened.ret = Ok(fd)
  /\ opened.fds = [alt_fd_list EXCEPT ![fd] = Fd(dev, mode, flags)]
  /\ Claimed(fd, dev, flags, opened.max)

LEMMA OpeningEffect ==
  ASSUME FileInv, NEW file, NEW mode, NEW flags, flags \subseteq {"O_APPEND", "O_NONBLOCK"},
         NEW answer \in Answers
  PROVE  LET opened == Opening(alt_fd_list, file, mode, flags, answer)
         IN  /\ opened.max \in -1 .. ALT_MAX_FD - 1 /\ alt_max_fd <= opened.max
             /\ \/ Untouched(opened)
                \/ \E fd, dev, fl : OpenedAt(opened, fd, dev, mode, fl)
<1> DEFINE dev == Owner(file)
           isafs == alt_find_dev(file) = NoDev
           index == IF dev = NoDev THEN -1 ELSE alt_get_fd(alt_fd_list)
           max == Highwater(index)
           fl == flags \cup (IF isafs THEN {} ELSE {"DEV"})
           claimed == IF index < 0 THEN alt_fd_list
                      ELSE [alt_fd_list EXCEPT ![index] = Fd(dev, mode, fl)]
           status ==
             IF dev = NoDev THEN Fail("ENODEV")
             ELSE IF index < 0 THEN Fail("EMFILE")
             ELSE IF ~isafs /\ alt_file_locked(claimed, max, index) THEN Fail("EACCES")
             ELSE IF "open" \in Methods[dev] THEN answer
             ELSE Ok(0)
           opened == Opening(alt_fd_list, file, mode, flags, answer)
<1>1. /\ opened.max = max
      /\ Failed(status) => opened.ret = status /\ opened.fds = alt_release_fd(claimed, index)
      /\ ~Failed(status) => opened.ret = Ok(index) /\ opened.fds = claimed
  BY DEF Opening
<1>2. /\ dev \in Devices \cup FileSystems \cup {NoDev}
      /\ dev # NoDev /\ ~isafs => dev \in Devices
      /\ dev # NoDev /\ isafs => dev \in FileSystems
  BY FoundDevice, FoundFileSystem DEF FileInv, Owner
<1>3. index = -1 \/ (index \in Fds /\ index > 2 /\ ~Used(alt_fd_list, index) /\ dev # NoDev)
  BY FreeDescriptor DEF FileInv, PoolInv
<1>4. max \in -1 .. ALT_MAX_FD - 1 /\ alt_max_fd <= max /\ index <= max
  BY <1>3, FileAssumption DEF FileInv, FileTypeOK, Highwater, Fds
<1>5. CASE Failed(status)
  <2>1. status.value = -1
    BY <1>5 DEF Failed, Fail, Ok, Answers
  <2>2. opened.fds = alt_fd_list
    <3>1. CASE index = -1
      BY <3>1, <1>1, <1>5 DEF alt_release_fd
    <3>2. CASE index # -1
      <4> HIDE DEF dev, index, fl
      <4>1. alt_fd_list[index] = Free
        BY <3>2, <1>3 DEF FileInv, PoolInv, FreeIsFree
      <4>2. index \in Fds /\ index > 2 /\ ~(index < 0)
        BY <3>2, <1>3, FileAssumption DEF Fds
      <4>3. opened.fds = [claimed EXCEPT ![index] = Free]
        BY <4>2, <1>1, <1>5 DEF alt_release_fd
      <4>4. claimed = [alt_fd_list EXCEPT ![index] = Fd(dev, mode, fl)]
        BY <4>2
      <4> QED
        BY <4>1, <4>2, <4>3, <4>4 DEF FileInv, FileTypeOK
    <3> QED
      BY <3>1, <3>2
  <2> QED
    BY <1>1, <1>4, <1>5, <2>1, <2>2 DEF Untouched
<1>6. CASE ~Failed(status)
  <2>1. dev # NoDev /\ index # -1 /\ (~isafs => ~alt_file_locked(claimed, max, index))
    <3>1. \A errno : Failed(Fail(errno))
      BY DEF Failed, Fail
    <3> HIDE DEF dev, index, max, claimed, isafs
    <3>2. dev # NoDev /\ ~(index < 0)
      BY <3>1, <1>6
    <3>3. ~isafs => ~alt_file_locked(claimed, max, index)
      BY <3>1, <3>2, <1>6
    <3> QED
      BY <3>2, <3>3
  <2>2. index \in Fds /\ index > 2 /\ ~Used(alt_fd_list, index) /\ ~(index < 0)
    BY <2>1, <1>3, FileAssumption DEF Fds
  <2>3. claimed = [alt_fd_list EXCEPT ![index] = Fd(dev, mode, fl)]
    BY <2>2
  <2>4. fl \subseteq Flags /\ "EXCL" \notin fl /\ ("DEV" \in fl => dev \in Devices)
    BY <1>2, <2>1 DEF Flags
  <2>5. Unlocked(dev)
    <3>1. CASE isafs
      BY <3>1, <1>2, <2>1, FileAssumption
      DEF Unlocked, FileInv, PoolInv, LockFlags, DevFlags, FileTypeOK
    <3>2. CASE ~isafs
      <4> HIDE DEF dev, index, max, fl, claimed, isafs
      <4>1. SUFFICES ASSUME NEW fd \in Fds, alt_fd_list[fd].dev = dev, Holds(fd)
                     PROVE  FALSE
        BY DEF Unlocked
      <4>2. fd # index
        BY <4>1, <2>1, <2>2 DEF Used
      <4>3. claimed[fd] = alt_fd_list[fd] /\ claimed[index].dev = dev
        BY <4>2, <2>2, <2>3 DEF FileInv, FileTypeOK, Fd
      <4>4. fd <= max
        <5>1. fd <= alt_max_fd
          BY <4>1, <2>1, FileAssumption
          DEF FileInv, PoolInv, LockFlags, DevFlags, HighWater, Used, FileTypeOK, Fds
        <5> QED
          BY <5>1, <1>4, FileAssumption DEF FileInv, FileTypeOK, Fds
      <4> QED
        BY <4>1, <4>2, <4>3, <4>4, <2>1, <3>2 DEF alt_file_locked, Holds
    <3> QED
      BY <3>1, <3>2
  <2>6. OpenedAt(opened, index, dev, mode, fl)
    <3> HIDE DEF dev, index, max, fl, status, opened, isafs, claimed
    <3> QED
      BY <1>1, <1>2, <1>4, <1>6, <2>1, <2>2, <2>3, <2>4, <2>5 DEF OpenedAt, Claimed
  <2> QED
    BY <1>1, <1>4, <2>6
<1> QED
  BY <1>5, <1>6

-----------------------------------------------------------------------------
(***************************************************************************)
(* The five things the calls do to the pool keep the invariant.            *)
(***************************************************************************)
AccessModes == {"O_RDONLY", "O_WRONLY", "O_RDWR"}

LEMMA PoolGrows ==
  ASSUME PoolInv, alt_fd_list' = alt_fd_list, held' = held,
         alt_max_fd' \in -1 .. ALT_MAX_FD - 1, alt_max_fd <= alt_max_fd'
  PROVE  PoolInv'
<1> USE FileAssumption DEF PoolInv, PoolTypeOK
<1>1. PoolTypeOK' /\ NoDescriptorLeaks' /\ FreeIsFree' /\ StandardUsed'
  BY DEF NoDescriptorLeaks, FreeIsFree, StandardUsed, Used
<1>2. HighWater' /\ DevFlags' /\ LockFlags'
  BY DEF HighWater, DevFlags, LockFlags, Used, Holds, Fds
<1>3. LockOrder'
  BY DEF LockOrder, Holds, SameDevice, Fds
<1> QED
  BY <1>1, <1>2, <1>3

LEMMA PoolOpened ==
  ASSUME PoolInv, NEW fd, NEW dev, NEW mode \in AccessModes, NEW flags,
         NEW max \in -1 .. ALT_MAX_FD - 1, alt_max_fd <= max,
         Claimed(fd, dev, flags, max),
         alt_fd_list' = [alt_fd_list EXCEPT ![fd] = Fd(dev, mode, flags)],
         alt_max_fd' = max, held' = held \cup {fd}
  PROVE  PoolInv'
<1> USE FileAssumption DEF PoolInv, PoolTypeOK
<1>0. /\ fd \in Fds /\ fd > 2 /\ dev # NoDev
      /\ alt_fd_list'[fd] = Fd(dev, mode, flags)
      /\ \A other \in Fds \ {fd} : alt_fd_list'[other] = alt_fd_list[other]
  BY DEF Claimed
<1>1. PoolTypeOK'
  BY <1>0 DEF Claimed, Fd, Fds, AccessModes
<1>2. NoDescriptorLeaks' /\ FreeIsFree' /\ StandardUsed'
  BY <1>0 DEF NoDescriptorLeaks, FreeIsFree, StandardUsed, Used, Fd
<1>3. HighWater'
  BY <1>0 DEF HighWater, Used, Fds, Claimed
<1>4. DevFlags' /\ LockFlags'
  <2>1. /\ Fd(dev, mode, flags).flags = flags /\ Fd(dev, mode, flags).dev = dev
        /\ ("DEV" \in flags => dev \in Devices) /\ "EXCL" \notin flags /\ max > 2
    BY <1>0 DEF Fd, Fds, Claimed
  <2>2. \A other \in Fds \ {fd} :
          /\ "DEV" \in alt_fd_list'[other].flags =>
               alt_fd_list'[other].dev \in Devices /\ max > 2
          /\ Holds(other)' => "DEV" \in alt_fd_list'[other].flags
    BY <1>0, <2>1 DEF DevFlags, LockFlags, Holds
  <2> QED BY <1>0, <2>1, <2>2 DEF DevFlags, LockFlags, Holds
<1>5. LockOrder'
  <2>1. SUFFICES ASSUME NEW f \in Fds, NEW other \in Fds,
                        Holds(f)', SameDevice(f, other)'
                 PROVE  f < other /\ other <= max
    BY DEF LockOrder
  <2>2. f # fd /\ Holds(f)
    BY <1>0, <2>1 DEF Holds, Fd, Claimed
  <2>3. other # fd
    BY <1>0, <2>1, <2>2 DEF SameDevice, Fd, Claimed, Unlocked
  <2>4. SameDevice(f, other)
    BY <1>0, <2>1, <2>2, <2>3 DEF SameDevice
  <2> QED
    BY <2>2, <2>4 DEF LockOrder, Fds
<1> QED
  BY <1>1, <1>2, <1>3, <1>4, <1>5

LEMMA PoolRedirected ==
  ASSUME PoolInv, \A f \in Fds : ~Holds(f),
         NEW std \in 0 .. 2, NEW fd, NEW dev, NEW mode \in AccessModes, NEW flags,
         NEW max \in -1 .. ALT_MAX_FD - 1, alt_max_fd <= max,
         Claimed(fd, dev, flags, max),
         alt_fd_list' = [alt_fd_list EXCEPT ![std] = Fd(dev, mode, flags)],
         alt_max_fd' = max, held' = held
  PROVE  PoolInv' /\ \A f \in Fds : ~Holds(f)'
<1> USE FileAssumption DEF PoolInv, PoolTypeOK
<1>0. /\ std \in Fds /\ std <= 2 /\ dev # NoDev /\ max > 2
      /\ alt_fd_list'[std] = Fd(dev, mode, flags)
      /\ \A other \in Fds \ {std} : alt_fd_list'[other] = alt_fd_list[other]
  BY DEF Claimed, Fds
<1>1. PoolTypeOK'
  BY <1>0 DEF Claimed, Fd, Fds, AccessModes
<1>2. NoDescriptorLeaks' /\ FreeIsFree' /\ StandardUsed' /\ HighWater'
  BY <1>0 DEF NoDescriptorLeaks, FreeIsFree, StandardUsed, HighWater, Used, Fd, Fds
<1>3. DevFlags' /\ LockFlags'
  BY <1>0 DEF DevFlags, LockFlags, Holds, Fds, Fd, Claimed
<1>4. \A f \in Fds : ~Holds(f)'
  BY <1>0 DEF Holds, Fd, Claimed
<1>5. LockOrder'
  BY <1>4 DEF LockOrder
<1> QED
  BY <1>1, <1>2, <1>3, <1>4, <1>5

LEMMA PoolClosed ==
  ASSUME PoolInv, NEW fd \in (0 .. 2) \cup held,
         alt_fd_list' = alt_release_fd(alt_fd_list, fd),
         held' = held \ {fd}, alt_max_fd' = alt_max_fd
  PROVE  PoolInv'
<1> USE FileAssumption DEF PoolInv, PoolTypeOK
<1>1. CASE ~(fd > 2)
  BY <1>1, PoolGrows DEF alt_release_fd, Fds
<1>2. CASE fd > 2
  <2>0. /\ fd \in Fds /\ alt_fd_list'[fd] = Free
        /\ \A other \in Fds \ {fd} : alt_fd_list'[other] = alt_fd_list[other]
    BY <1>2 DEF alt_release_fd, Fds
  <2>1. PoolTypeOK'
    BY <1>2 DEF alt_release_fd, Free, Fd, Fds
  <2>2. NoDescriptorLeaks' /\ StandardUsed'
    BY <1>2, <2>0 DEF NoDescriptorLeaks, StandardUsed, Used, Free, Fd
  <2>3. FreeIsFree' /\ HighWater'
    BY <2>0 DEF FreeIsFree, HighWater, Used, Free, Fd
  <2>4. DevFlags' /\ LockFlags'
    BY <2>0 DEF DevFlags, LockFlags, Holds, Free, Fd
  <2>5. LockOrder'
    <3>1. SUFFICES ASSUME NEW f \in Fds, NEW other \in Fds,
                          Holds(f)', SameDevice(f, other)'
                   PROVE  f < other /\ other <= alt_max_fd
      BY DEF LockOrder
    <3>2. f # fd /\ Holds(f)
      BY <2>0, <3>1 DEF Holds, Free, Fd
    <3>3. alt_fd_list[f].dev \in Devices
      BY <3>2 DEF LockFlags, DevFlags
    <3>4. other # fd /\ SameDevice(f, other)
      BY <2>0, <3>1, <3>2, <3>3 DEF SameDevice, Free, Fd
    <3> QED
      BY <3>2, <3>4 DEF LockOrder
  <2> QED
    BY <2>1, <2>2, <2>3, <2>4, <2>5
<1> QED
  BY <1>1, <1>2

LEMMA PoolFlagged ==
  ASSUME PoolInv, NEW fd \in Fds, NEW flags, flags \subseteq Flags,
         "DEV" \in flags <=> "DEV" \in alt_fd_list[fd].flags,
         "EXCL" \in flags =>
           \/ Holds(fd)
           \/ "DEV" \in flags /\ ~LockRefused(alt_fd_list, alt_max_fd, fd),
         Used(alt_fd_list, fd),
         SetFlags(fd, flags), held' = held, alt_max_fd' = alt_max_fd
  PROVE  PoolInv'
<1> USE FileAssumption DEF PoolInv, PoolTypeOK
<1>0. /\ alt_fd_list'[fd] = [alt_fd_list[fd] EXCEPT !.flags = flags]
      /\ alt_fd_list'[fd].flags = flags
      /\ \A f \in Fds : alt_fd_list'[f].dev = alt_fd_list[f].dev
      /\ \A f \in Fds \ {fd} : alt_fd_list'[f] = alt_fd_list[f]
  BY DEF SetFlags
<1>1. PoolTypeOK'
  BY DEF SetFlags
<1>2. NoDescriptorLeaks' /\ StandardUsed' /\ HighWater'
  BY <1>0 DEF NoDescriptorLeaks, StandardUsed, HighWater, Used
<1>3. FreeIsFree'
  BY <1>0 DEF FreeIsFree, Used
<1>4. DevFlags' /\ LockFlags'
  BY <1>0 DEF DevFlags, LockFlags, Holds
<1>5. LockOrder'
  <2>1. SUFFICES ASSUME NEW f \in Fds, NEW other \in Fds,
                        Holds(f)', SameDevice(f, other)'
                 PROVE  f < other /\ other <= alt_max_fd
    BY DEF LockOrder
  <2>2. SameDevice(f, other)
    BY <1>0, <2>1 DEF SameDevice
  <2>3. CASE Holds(f)
    BY <2>2, <2>3 DEF LockOrder
  <2>4. CASE ~Holds(f)
    <3>1. f = fd /\ "DEV" \in alt_fd_list[f].flags /\ ~LockRefused(alt_fd_list, alt_max_fd, f)
      BY <1>0, <2>1, <2>4 DEF Holds
    <3>2. ~(other < alt_max_fd)
      BY <3>1, <2>2 DEF LockRefused, SameDevice
    <3>3. alt_fd_list[f].dev \in Devices /\ alt_max_fd > 2
      BY <3>1 DEF DevFlags
    <3>4. Used(alt_fd_list, f) /\ Used(alt_fd_list, other)
      BY <3>3, <2>2 DEF SameDevice, Used
    <3>5. f <= alt_max_fd /\ other <= alt_max_fd
      BY <3>3, <3>4 DEF HighWater, Fds
    <3>6. f # other
      BY <2>2 DEF SameDevice
    <3> QED
      BY <3>2, <3>5, <3>6 DEF Fds
  <2> QED
    BY <2>3, <2>4
<1> QED
  BY <1>1, <1>2, <1>3, <1>4, <1>5

-----------------------------------------------------------------------------
(***************************************************************************)
(* One lemma per call that changes the pool.                               *)
(***************************************************************************)
LEMMA OpenKeepsPool ==
  ASSUME FileInv, NEW file, NEW mode \in AccessModes,
         NEW flags, flags \subseteq {"O_APPEND", "O_NONBLOCK"}, NEW answer \in Answers,
         ALT_OPEN(file, mode, flags, answer)
  PROVE  PoolInv'
<1> DEFINE opened == Opening(alt_fd_list, file, mode, flags, answer)
<1> HIDE DEF opened
<1>1. /\ alt_fd_list' = opened.fds /\ alt_max_fd' = opened.max
      /\ held' = IF Failed(opened.ret) THEN held ELSE held \cup {opened.ret.value}
  BY DEF ALT_OPEN, opened
<1>2. /\ opened.max \in -1 .. ALT_MAX_FD - 1 /\ alt_max_fd <= opened.max
      /\ Untouched(opened) \/ \E fd, dev, fl : OpenedAt(opened, fd, dev, mode, fl)
  BY OpeningEffect DEF opened
<1>3. CASE Untouched(opened)
  <2>1. held' = held /\ alt_fd_list' = alt_fd_list
    BY <1>1, <1>3 DEF Untouched, Failed
  <2> QED
    BY <1>1, <1>2, <2>1, PoolGrows DEF FileInv
<1>4. CASE \E fd, dev, fl : OpenedAt(opened, fd, dev, mode, fl)
  <2>1. PICK fd, dev, fl : OpenedAt(opened, fd, dev, mode, fl)
    BY <1>4
  <2>2. ~Failed(opened.ret) /\ opened.ret.value = fd
    BY <2>1, FileAssumption DEF OpenedAt, Claimed, Failed, Ok, Fds
  <2>3. held' = held \cup {fd}
    BY <1>1, <2>2
  <2> QED
    BY <1>1, <1>2, <2>1, <2>3, PoolOpened DEF FileInv, OpenedAt
<1> QED
  BY <1>2, <1>3, <1>4

LEMMA StatKeepsPool ==
  ASSUME FileInv, NEW file, NEW opens \in Answers, NEW stats \in Answers,
         ALT_STAT(file, opens, stats)
  PROVE  PoolInv'
<1> DEFINE opened == Opening(alt_fd_list, file, "O_RDONLY", {}, opens)
<1> HIDE DEF opened
<1>1. /\ alt_max_fd' = opened.max /\ held' = held
      /\ opened.ret.value < 0 => alt_fd_list' = opened.fds
      /\ ~(opened.ret.value < 0) =>
           alt_fd_list' = alt_release_fd(opened.fds, opened.ret.value)
  BY DEF ALT_STAT, opened
<1>2. /\ opened.max \in -1 .. ALT_MAX_FD - 1 /\ alt_max_fd <= opened.max
      /\ \/ Untouched(opened)
         \/ \E fd, dev, fl : OpenedAt(opened, fd, dev, "O_RDONLY", fl)
  BY OpeningEffect DEF opened
<1>3. alt_fd_list' = alt_fd_list
  <2>1. CASE Untouched(opened)
    BY <1>1, <2>1 DEF Untouched
  <2>2. CASE \E fd, dev, fl : OpenedAt(opened, fd, dev, "O_RDONLY", fl)
    <3>1. PICK fd, dev, fl : OpenedAt(opened, fd, dev, "O_RDONLY", fl)
      BY <2>2
    <3>2. /\ opened.ret.value = fd /\ fd \in Fds /\ fd > 2 /\ ~(fd < 0)
          /\ alt_fd_list[fd] = Free
      BY <3>1, FileAssumption DEF OpenedAt, Claimed, Ok, Fds, FileInv, PoolInv, FreeIsFree
    <3>3. alt_fd_list' = [opened.fds EXCEPT ![fd] = Free]
      BY <1>1, <3>2 DEF alt_release_fd
    <3> QED
      BY <3>1, <3>2, <3>3 DEF OpenedAt, FileInv, FileTypeOK
  <2> QED
    BY <1>2, <2>1, <2>2
<1> QED
  BY <1>1, <1>2, <1>3, PoolGrows DEF FileInv

LEMMA RedirectKeepsPool ==
  ASSUME FileInv, Booting, NEW std \in 0 .. 2, NEW mode \in AccessModes,
         NEW answer \in Answers, alt_open_fd(std, StdFile, mode, answer)
  PROVE  PoolInv' /\ \A fd \in Fds : ~Holds(fd)'
<1> DEFINE opened == Opening(alt_fd_list, StdFile, mode, {}, answer)
<1> HIDE DEF opened
<1>1. /\ alt_max_fd' = opened.max /\ held' = held
      /\ opened.ret.value < 0 => alt_fd_list' = opened.fds
      /\ ~(opened.ret.value < 0) =>
           alt_fd_list' = alt_release_fd([opened.fds EXCEPT ![std] =
                            opened.fds[opened.ret.value]], opened.ret.value)
  BY DEF alt_open_fd, opened
<1>2. /\ opened.max \in -1 .. ALT_MAX_FD - 1 /\ alt_max_fd <= opened.max
      /\ Untouched(opened) \/ \E fd, dev, fl : OpenedAt(opened, fd, dev, mode, fl)
  BY OpeningEffect DEF opened
<1>3. \A fd \in Fds : ~Holds(fd)
  BY DEF FileInv, BootUnlocked
<1>4. CASE Untouched(opened)
  <2>1. alt_fd_list' = alt_fd_list
    BY <1>1, <1>4 DEF Untouched
  <2>2. PoolInv'
    BY <1>1, <1>2, <2>1, PoolGrows DEF FileInv
  <2> QED
    BY <1>3, <2>1, <2>2 DEF Holds
<1>5. CASE \E fd, dev, fl : OpenedAt(opened, fd, dev, mode, fl)
  <2>1. PICK fd, dev, fl : OpenedAt(opened, fd, dev, mode, fl)
    BY <1>5
  <2>2. /\ opened.ret.value = fd /\ fd \in Fds /\ fd > 2 /\ ~(fd < 0)
        /\ alt_fd_list[fd] = Free /\ std \in Fds /\ std # fd
        /\ opened.fds = [alt_fd_list EXCEPT ![fd] = Fd(dev, mode, fl)]
    BY <2>1, FileAssumption DEF OpenedAt, Claimed, Ok, Fds, FileInv, PoolInv, FreeIsFree
  <2>3. opened.fds[fd] = Fd(dev, mode, fl)
    BY <2>2 DEF FileInv, FileTypeOK
  <2>4. alt_fd_list' = [[opened.fds EXCEPT ![std] = Fd(dev, mode, fl)] EXCEPT ![fd] = Free]
    BY <1>1, <2>2, <2>3 DEF alt_release_fd
  <2>5. alt_fd_list' = [alt_fd_list EXCEPT ![std] = Fd(dev, mode, fl)]
    BY <2>2, <2>4 DEF FileInv, FileTypeOK
  <2> QED
    BY <1>1, <1>2, <1>3, <2>1, <2>5, PoolRedirected DEF FileInv, OpenedAt
<1> QED
  BY <1>2, <1>4, <1>5

LEMMA CloseKeepsPool ==
  ASSUME FileInv, NEW fd \in {-1} \cup (0 .. 2) \cup held, NEW answer, ALT_CLOSE(fd, answer)
  PROVE  PoolInv'
<1> USE FileAssumption DEF FileInv
<1>1. alt_max_fd' = alt_max_fd /\ held' = held \ {fd}
  BY DEF ALT_CLOSE
<1>2. CASE fd = -1
  <2>1. alt_fd_list' = alt_fd_list /\ held' = held
    BY <1>1, <1>2 DEF ALT_CLOSE, FileTypeOK
  <2> QED
    BY <1>1, <2>1, PoolGrows DEF FileTypeOK
<1>3. CASE fd # -1
  <2>1. fd \in (0 .. 2) \cup held /\ ~(fd < 0)
    BY <1>3 DEF FileTypeOK
  <2>2. alt_fd_list' = alt_release_fd(alt_fd_list, fd)
    BY <2>1 DEF ALT_CLOSE
  <2> QED
    BY <1>1, <2>1, <2>2, PoolClosed
<1> QED
  BY <1>2, <1>3

LEMMA IoctlKeepsPool ==
  ASSUME FileInv, NEW fd \in {-1} \cup (0 .. 2) \cup held, NEW req, NEW answer,
         ALT_IOCTL(fd, req, answer)
  PROVE  PoolInv'
<1> USE FileAssumption DEF FileInv
<1>0. /\ alt_max_fd' = alt_max_fd /\ held' = held
      /\ alt_max_fd \in -1 .. ALT_MAX_FD - 1
  BY DEF ALT_IOCTL, alt_fd_lock, alt_fd_unlock, Answered, poolVars, FileTypeOK
<1>1. CASE alt_fd_list' = alt_fd_list
  BY <1>0, <1>1, PoolGrows
<1>2. CASE fd >= 0 /\ "DEV" \in alt_fd_list[fd].flags /\ alt_fd_list' # alt_fd_list
  <2>1. fd \in Fds /\ alt_fd_list[fd].flags \subseteq Flags
    BY <1>2 DEF FileTypeOK, Fds
  <2>2. Used(alt_fd_list, fd)
    BY <1>2, <2>1 DEF PoolInv, DevFlags, Used
  <2>3. CASE alt_fd_lock(fd)
    <3>1. /\ ~LockRefused(alt_fd_list, alt_max_fd, fd)
          /\ SetFlags(fd, alt_fd_list[fd].flags \cup {"EXCL"})
      BY <1>2, <2>3 DEF alt_fd_lock
    <3>2. alt_fd_list[fd].flags \cup {"EXCL"} \subseteq Flags
      BY <2>1 DEF Flags
    <3> QED
      BY <1>0, <1>2, <2>1, <2>2, <3>1, <3>2, PoolFlagged
  <2>4. CASE alt_fd_unlock(fd)
    <3>1. SetFlags(fd, alt_fd_list[fd].flags \ {"EXCL"})
      BY <2>4 DEF alt_fd_unlock
    <3> QED
      BY <1>0, <1>2, <2>1, <2>2, <3>1, PoolFlagged
  <2> QED
    BY <1>2, <2>3, <2>4 DEF ALT_IOCTL, Answered, poolVars
<1> QED
  BY <1>1, <1>2 DEF ALT_IOCTL, Answered, poolVars

LEMMA FcntlKeepsPool ==
  ASSUME FileInv, NEW fd \in {-1} \cup (0 .. 2) \cup held, NEW cmd, NEW arg \in SUBSET StatusFlags,
         ALT_FCNTL(fd, cmd, arg)
  PROVE  PoolInv'
<1> USE FileAssumption DEF FileInv
<1>0. /\ alt_max_fd' = alt_max_fd /\ held' = held
      /\ alt_max_fd \in -1 .. ALT_MAX_FD - 1
  BY DEF ALT_FCNTL, FileTypeOK
<1>1. CASE alt_fd_list' = alt_fd_list
  BY <1>0, <1>1, PoolGrows
<1>2. CASE alt_fd_list' # alt_fd_list
  <2>1. PICK flags : /\ flags = (alt_fd_list[fd].flags \ {"O_APPEND", "O_NONBLOCK"}) \cup arg
                     /\ SetFlags(fd, flags) /\ ~(fd < 0)
    BY <1>2 DEF ALT_FCNTL
  <2>2. fd \in Fds /\ alt_fd_list[fd].flags \subseteq Flags
    BY <2>1 DEF FileTypeOK, Fds
  <2>3. Used(alt_fd_list, fd)
    BY <2>1, <2>2 DEF PoolInv, NoDescriptorLeaks, StandardUsed, Fds
  <2>4. flags \subseteq Flags
    BY <2>1, <2>2 DEF Flags
  <2>5. "DEV" \in flags <=> "DEV" \in alt_fd_list[fd].flags
    BY <2>1
  <2>6. "EXCL" \in flags =>
          \/ Holds(fd)
          \/ "DEV" \in flags /\ ~LockRefused(alt_fd_list, alt_max_fd, fd)
    <3>1. "EXCL" \in flags => "EXCL" \in alt_fd_list[fd].flags
      BY <2>1
    <3> QED
      BY <3>1, Zenon DEF Holds
  <2>7. PoolInv /\ SetFlags(fd, flags) /\ fd \in Fds
    BY <2>1, <2>2
  <2>8. alt_max_fd' = alt_max_fd /\ held' = held
    BY <1>0
  <2> QED
    BY <2>3, <2>4, <2>5, <2>6, <2>7, <2>8, PoolFlagged
<1> QED
  BY <1>1, <1>2

-----------------------------------------------------------------------------
(***************************************************************************)
(* The invariant holds from boot to exit.                                  *)
(***************************************************************************)
LEMMA MainInitInv == MainInit => FileInv
<1> SUFFICES ASSUME MainInit PROVE FileInv
  OBVIOUS
<1> USE FileAssumption DEF MainInit, FileInit
<1>0. /\ \A fd \in Fds : fd <= 2 => alt_fd_list[fd] = Fd(alt_dev_null, "O_RDONLY", {})
      /\ \A fd \in Fds : ~(fd <= 2) => alt_fd_list[fd] = Free
      /\ \A fd \in Fds : Used(alt_fd_list, fd) <=> fd <= 2
  BY DEF Used, Fd, Free
<1>1. PoolTypeOK
  BY DEF PoolTypeOK, Fd, Free, Fds
<1>2. NoDescriptorLeaks /\ StandardUsed /\ HighWater
  <2>1. \A fd \in Fds : fd > 2 <=> ~(fd <= 2)
    BY DEF Fds
  <2>2. held = {}
    OBVIOUS
  <2>3. NoDescriptorLeaks
    <3>1. \A fd \in Fds \ (0 .. 2) : ~(fd <= 2)
      BY DEF Fds
    <3> QED
      BY <1>0, <2>2, <3>1 DEF NoDescriptorLeaks
  <2> QED
    BY <1>0, <2>1, <2>3 DEF StandardUsed, HighWater
<1>3. FreeIsFree
  BY <1>0 DEF FreeIsFree
<1>4. \A fd \in Fds : alt_fd_list[fd].flags = {}
  BY <1>0 DEF Fd, Free
<1>5. DevFlags /\ LockFlags /\ LockOrder /\ BootUnlocked
  BY <1>4 DEF DevFlags, LockFlags, LockOrder, BootUnlocked, Holds
<1>6. FileTypeOK
  BY <1>1 DEF FileTypeOK, PoolTypeOK
<1> QED
  BY <1>1, <1>2, <1>3, <1>5, <1>6 DEF FileInv, PoolInv

\* Constructors, main() and destructors: no call breaks the pool.
LEMMA CallsKeepPool ==
  ASSUME FileInv, NEW fd \in {-1} \cup (0 .. 2) \cup held,
         PoolCalls(fd) \/ \E answer \in Answers : Calls(fd, answer)
  PROVE  PoolInv' /\ UNCHANGED listVars
<1>1. CASE \E answer \in Answers : ALT_CLOSE(fd, answer)
  BY <1>1, CloseKeepsPool DEF ALT_CLOSE
<1>2. CASE \E req \in {"TIOCEXCL", "TIOCNXCL", "other"}, answer \in Answers :
             ALT_IOCTL(fd, req, answer)
  BY <1>2, IoctlKeepsPool DEF ALT_IOCTL, alt_fd_lock, alt_fd_unlock, Answered
<1>3. CASE \E cmd \in {"F_GETFL", "F_SETFL", "other"}, arg \in SUBSET StatusFlags :
             ALT_FCNTL(fd, cmd, arg)
  BY <1>3, FcntlKeepsPool DEF ALT_FCNTL
<1>4. CASE UNCHANGED <<poolVars, listVars>>
  BY <1>4, PoolGrows, FileAssumption DEF FileInv, PoolInv, PoolTypeOK, poolVars
<1> QED
  BY <1>1, <1>2, <1>3, <1>4
  DEF Calls, PoolCalls, ALT_READ, ALT_WRITE, ALT_FSTAT, ALT_LSEEK, ALT_ISATTY, Answered

LEMMA MainStepInv == FileInv /\ [MainNext]_mainVars => FileInv'
<1> SUFFICES ASSUME FileInv, [MainNext]_mainVars
             PROVE  FileInv'
  OBVIOUS
<1> USE FileAssumption
<1>a. ASSUME PoolInv', UNCHANGED listVars, UNCHANGED phase, BootUnlocked'
      PROVE  FileInv'
  BY <1>a DEF FileInv, FileTypeOK, PoolInv, PoolTypeOK, listVars
<1>b. ASSUME UNCHANGED fileVars, Enters(phase'), phase' \in {"stdout", "_do_ctors", "main",
             "_do_dtors", "_exit"} \cup {phase}, Booting' => Booting
      PROVE  FileInv'
  <2>1. PoolInv'
    BY <1>b, PoolGrows DEF fileVars, poolVars, FileInv, PoolInv, PoolTypeOK
  <2>2. BootUnlocked'
    BY <1>b DEF fileVars, poolVars, FileInv, BootUnlocked, Holds
  <2> QED
    BY <1>b, <2>1, <2>2 DEF FileInv, FileTypeOK, PoolInv, PoolTypeOK, fileVars, listVars, Enters
<1>c. UNCHANGED poolVars => (PoolInv' /\ BootUnlocked') \/ phase' # phase
  BY PoolGrows DEF poolVars, FileInv, PoolInv, PoolTypeOK, BootUnlocked, Booting, Holds
<1>1. CASE alt_sys_init
  <2>1. CASE \E dev \in Devices : alt_dev_reg(dev) /\ UNCHANGED phase
    BY <1>c, <2>1 DEF alt_dev_reg, FileInv, FileTypeOK, poolVars
  <2>2. CASE \E fs \in FileSystems : alt_fs_reg(fs) /\ UNCHANGED phase
    BY <1>c, <2>2 DEF alt_fs_reg, FileInv, FileTypeOK, poolVars
  <2>3. CASE phase = "sys_init" /\ Enters("stdout") /\ UNCHANGED fileVars
    BY <1>b, <2>3 DEF Enters, Booting
  <2> QED
    BY <1>1, <2>1, <2>2, <2>3 DEF alt_sys_init
<1>2. CASE alt_io_redirect
  <2>1. PICK std \in 0 .. 2, mode \in AccessModes, answer \in Answers :
           /\ alt_open_fd(std, StdFile, mode, answer)
           /\ Booting /\ phase' \in {"stdin", "stderr", "_do_ctors"}
    BY <1>2 DEF alt_io_redirect, Enters, Booting, AccessModes
  <2>2. PoolInv' /\ \A fd \in Fds : ~Holds(fd)'
    BY <2>1, RedirectKeepsPool
  <2>3. BootUnlocked'
    BY <2>2 DEF BootUnlocked
  <2>4. UNCHANGED listVars
    BY <2>1 DEF alt_open_fd
  <2> QED
    BY <2>1, <2>2, <2>3, <2>4 DEF FileInv, FileTypeOK, PoolInv, PoolTypeOK, listVars
<1>3. CASE MainReturns
  <2>1. CASE phase = "main" /\ Enters("_do_dtors") /\ \E answer \in Answers : ALT_CLOSE(1, answer)
    <3>1. PoolInv' /\ UNCHANGED listVars
      BY <2>1, CloseKeepsPool DEF ALT_CLOSE
    <3> QED
      BY <2>1, <3>1
      DEF Enters, BootUnlocked, Booting, FileInv, FileTypeOK, PoolInv, PoolTypeOK, listVars
  <2>2. CASE \/ phase = "_do_ctors" /\ Enters("main") /\ UNCHANGED fileVars
             \/ phase = "_do_dtors" /\ Enters("_exit") /\ UNCHANGED fileVars
    BY <1>b, <2>2 DEF Enters, Booting
  <2> QED
    BY <1>3, <2>1, <2>2 DEF MainReturns
<1>4. CASE ALT_EXIT \/ UNCHANGED mainVars
  BY <1>b, <1>4 DEF ALT_EXIT, mainVars, Enters, Booting
<1>5. CASE ALT_KILL
  <2>1. CASE InProgramCode /\ Enters("_exit") /\ UNCHANGED fileVars
    BY <1>b, <2>1 DEF Enters, InProgramCode, Booting
  <2>2. CASE UNCHANGED <<poolVars, listVars, phase>>
    BY <1>a, <1>c, <2>2
  <2> QED
    BY <1>5, <2>1, <2>2 DEF ALT_KILL, Answer
<1>6. CASE Program
  <2>1. BootUnlocked' /\ UNCHANGED phase
    BY <1>6 DEF Program, InProgramCode, BootUnlocked, Booting
  <2>2. CASE \E file \in Files, mode \in Modes, flags \in SUBSET StatusFlags, answer \in Answers :
               ALT_OPEN(file, mode, flags, answer)
    <3>1. PICK file \in Files, mode \in Modes, flags \in SUBSET StatusFlags, answer \in Answers :
             ALT_OPEN(file, mode, flags, answer)
      BY <2>2
    <3>2. mode \in AccessModes /\ flags \subseteq {"O_APPEND", "O_NONBLOCK"}
      BY DEF AccessModes
    <3>3. PoolInv' /\ UNCHANGED listVars
      BY <3>1, <3>2, OpenKeepsPool DEF ALT_OPEN
    <3> QED
      BY <1>a, <2>1, <3>3
  <2>3. CASE \E file \in Files, opens \in Answers, stats \in Answers : ALT_STAT(file, opens, stats)
    <3>1. PoolInv' /\ UNCHANGED listVars
      BY <2>3, StatKeepsPool DEF ALT_STAT
    <3> QED
      BY <1>a, <2>1, <3>1
  <2>4. CASE \E fd \in {-1} \cup (0 .. 2) \cup held :
               PoolCalls(fd) \/ \E answer \in Answers : Calls(fd, answer)
    <3>1. PoolInv' /\ UNCHANGED listVars
      BY <2>4, CallsKeepPool
    <3> QED
      BY <1>a, <2>1, <3>1
  <2>5. CASE UNCHANGED <<poolVars, listVars>>
    BY <1>a, <1>c, <2>1, <2>5
  <2> QED
    BY <1>6, <2>2, <2>3, <2>4, <2>5
    DEF Program, ALT_UNLINK, ALT_LINK, ALT_RENAME, ALT_FORK, ALT_EXECVE, ALT_WAIT, ALT_GETPID, Answer
<1> QED
  BY <1>1, <1>2, <1>3, <1>4, <1>5, <1>6 DEF MainNext

\* The invariant holds in every state of every program.
THEOREM FileInvCorrect == MainSpec => []FileInv
<1> QED
  BY MainInitInv, MainStepInv, PTL DEF MainSpec

\* Every descriptor is one of the pool's, on a registered kind of device.
THEOREM FileTypeCorrect == MainSpec => []FileTypeOK
<1>1. FileInv => FileTypeOK
  BY DEF FileInv
<1> QED
  BY <1>1, FileInvCorrect, PTL

\* open(), stat(), close() and the redirections never lose a descriptor,
\* whatever the drivers answer.
THEOREM NoDescriptorLeaksCorrect == MainSpec => []NoDescriptorLeaks
<1>1. FileInv => NoDescriptorLeaks
  BY DEF FileInv, PoolInv
<1> QED
  BY <1>1, FileInvCorrect, PTL

\* At most one descriptor locks a device, although alt_fd_lock() does not look
\* at the highest one.
THEOREM OneHolderCorrect == MainSpec => []OneHolder
<1>1. FileInv => OneHolder
  <2> SUFFICES ASSUME FileInv, NEW fd \in Fds, NEW other \in Fds,
                      Holds(fd), SameDevice(fd, other), Holds(other)
               PROVE  FALSE
    BY DEF OneHolder
  <2>1. SameDevice(other, fd)
    BY DEF SameDevice
  <2>2. fd < other /\ other < fd
    BY <2>1 DEF FileInv, PoolInv, LockOrder
  <2> QED
    BY <2>2, FileAssumption DEF Fds
<1> QED
  BY <1>1, FileInvCorrect, PTL
-----------------------------------------------------------------------------
(***************************************************************************)
(* From reset to alt_main().  Nothing is ever stored where the image is,   *)
(* so that it can be loaded again.                                         *)
(***************************************************************************)
BssCleared(to) == \A a \in bss_start .. to - 1 : memory[a] = 0
DataLoaded(to) == \A a \in ram_rwdata_start .. to - 1 : memory[a] = ImageWord(LoadedAt(a))

BootInv ==
  /\ BootTypeOK
  /\ \A a \in 0 .. end : InImage(a) => memory[a] = ImageWord(a)
  /\ step = "clear" => /\ r2 \in bss_start .. bss_end - 1 /\ r3 = bss_end
                       /\ BssCleared(r2)
  /\ step \in {"call alt_load", "alt_load", "limit", "call alt_main"} => BssCleared(bss_end)
  /\ step = "alt_load" =>
       /\ ALT_STACK_CHECK => et = 0
       /\ \/ section = 1 /\ DataLoaded(ram_rwdata_start + offset)
          \/ section > 1 /\ offset = 0 /\ DataLoaded(ram_rwdata_end)
  /\ step \in {"limit", "call alt_main"} => DataLoaded(ram_rwdata_end)
  /\ step = "call alt_main" /\ ALT_STACK_CHECK =>
       et = ImageWord(LoadedAt(alt_stack_limit_value))

\* Where the sections are.
LEMMA Addresses ==
  ASSUME layout \in Layouts
  PROVE  /\ ram_rwdata_start \in Nat /\ ram_rwdata_end \in Nat
         /\ bss_start \in Nat /\ bss_end \in Nat /\ end = bss_end
         /\ layout.rwdata \in Nat
         /\ ram_rwdata_start < ram_rwdata_end
         /\ ram_rwdata_end = ram_rwdata_start + layout.rwdata
         /\ bss_start = ram_rwdata_end + layout.rwdata
         /\ bss_start <= bss_end
         /\ flash_rwdata_start = ram_rwdata_end
<1>1. /\ layout.exceptions \in Nat /\ layout.rodata \in Nat
      /\ layout.rwdata \in Nat /\ layout.rwdata > 0 /\ layout.bss \in Nat
  BY BootAssumption
<1>2. /\ ram_rwdata_start = layout.exceptions + layout.rodata
      /\ ram_rwdata_end = ram_rwdata_start + layout.rwdata
      /\ flash_rwdata_start = ram_rwdata_end
      /\ bss_start = flash_rwdata_start + layout.rwdata
      /\ bss_end = bss_start + layout.bss /\ end = bss_end
  BY DEF ram_rodata_start, ram_rwdata_start, ram_rwdata_end, flash_rwdata_start, bss_start,
         bss_end, end
<1> QED BY <1>1, <1>2

LEMMA LayoutKept ==
  ASSUME UNCHANGED layout
  PROVE  /\ ram_rwdata_start' = ram_rwdata_start /\ ram_rwdata_end' = ram_rwdata_end
         /\ bss_start' = bss_start /\ bss_end' = bss_end /\ end' = end
         /\ \A a : (InImage(a)' <=> InImage(a)) /\ LoadedAt(a)' = LoadedAt(a)
         /\ alt_stack_limit_value' = alt_stack_limit_value
BY DEF ram_rodata_start, ram_rwdata_start, ram_rwdata_end, flash_rwdata_start, bss_start,
       bss_end, end, InImage, LoadedAt, ReadOnly, alt_stack_limit_value

LEMMA ImageIs ==
  ASSUME layout \in Layouts, NEW a \in 0 .. end
  PROVE  /\ InImage(a) <=> a < ram_rwdata_start \/ (ram_rwdata_end <= a /\ a < bss_start)
         /\ LoadedAt(a) = IF a < ram_rwdata_start THEN a
                          ELSE a - ram_rwdata_start + ram_rwdata_end
BY Addresses DEF InImage, LoadedAt, ReadOnly

LEMMA SectionsAre ==
  /\ Len(LoadedSections) = 3
  /\ LoadedSections[1] = [from |-> flash_rwdata_start, to |-> ram_rwdata_start,
                          end |-> ram_rwdata_end]
  /\ LoadedSections[2].from = LoadedSections[2].to
  /\ LoadedSections[3].from = LoadedSections[3].to
  /\ DOMAIN LoadedSections = 1 .. 3
BY DEF LoadedSections

LEMMA LoadIsCalled ==
  ASSUME layout \in Layouts PROVE AfterBss = "call alt_load"
<1>1. LoadedSections[1].from # LoadedSections[1].to /\ 1 \in DOMAIN LoadedSections
  BY SectionsAre, Addresses
<1> QED BY <1>1 DEF AfterBss, CALL_ALT_LOAD

\* A store outside the image leaves the image.
LEMMA StoreKeepsImage ==
  ASSUME BootInv, UNCHANGED layout, NEW x \in 0 .. end, ~InImage(x),
         NEW v \in 0 .. end \cup {Stale}, memory' = [memory EXCEPT ![x] = v]
  PROVE  /\ memory' \in [0 .. end' -> 0 .. end' \cup {Stale}]
         /\ \A a \in 0 .. end' : InImage(a)' => memory'[a] = ImageWord(a)
         /\ memory'[x] = v /\ \A a \in 0 .. end : a # x => memory'[a] = memory[a]
<1>1. /\ memory \in [0 .. end -> 0 .. end \cup {Stale}] /\ end' = end
      /\ \A a \in 0 .. end : InImage(a) => memory[a] = ImageWord(a)
      /\ \A a : InImage(a)' <=> InImage(a)
  BY LayoutKept DEF BootInv, BootTypeOK
<1>2. memory' \in [0 .. end -> 0 .. end \cup {Stale}] BY <1>1
<1>3. memory'[x] = v /\ \A a \in 0 .. end : a # x => memory'[a] = memory[a] BY <1>1
<1>4. ASSUME NEW a \in 0 .. end, InImage(a) PROVE memory'[a] = ImageWord(a)
  <2>1. a # x BY <1>4
  <2> QED BY <1>1, <1>3, <1>4, <2>1
<1>5. \A a \in 0 .. end' : InImage(a)' => memory'[a] = ImageWord(a)
  <2> TAKE a \in 0 .. end'
  <2>1. a \in 0 .. end BY <1>1
  <2>2. InImage(a)' <=> InImage(a) BY DEF InImage, ReadOnly, ram_rwdata_start, ram_rodata_start,
          flash_rwdata_start, ram_rwdata_end, bss_start
  <2> QED BY <1>4, <2>1, <2>2
<1> QED BY <1>1, <1>2, <1>3, <1>5

LEMMA BootTypes ==
  ASSUME BootInv
  PROVE  /\ layout \in Layouts /\ ALT_STACK_CHECK \in BOOLEAN
         /\ memory \in [0 .. end -> 0 .. end \cup {Stale}]
         /\ r2 \in 0 .. end /\ r3 \in 0 .. end /\ section \in 1 .. 3
         /\ offset \in 0 .. layout.rwdata
         /\ end \in Nat
BY Addresses DEF BootInv, BootTypeOK

\* A step that leaves the memory alone.
LEMMA QuietStep ==
  ASSUME BootInv, UNCHANGED <<layout, ALT_STACK_CHECK, memory>>,
         step' \in {"_start", "clear", "call alt_load", "alt_load", "limit",
                    "call alt_main", "alt_main"},
         r2' \in 0 .. end, r3' \in 0 .. end, section' \in 1 .. 3, offset' \in 0 .. layout.rwdata
  PROVE  /\ BootTypeOK' /\ \A a \in 0 .. end' : InImage(a)' => memory'[a] = ImageWord(a)
         /\ \A to : (BssCleared(to)' <=> BssCleared(to)) /\ (DataLoaded(to)' <=> DataLoaded(to))
<1>1. end' = end /\ \A a : InImage(a)' <=> InImage(a) BY LayoutKept
<1>2. BootTypeOK' BY <1>1, BootTypes DEF BootTypeOK
<1>3. \A a \in 0 .. end' : InImage(a)' => memory'[a] = ImageWord(a) BY <1>1 DEF BootInv
<1>4. \A to : (BssCleared(to)' <=> BssCleared(to)) /\ (DataLoaded(to)' <=> DataLoaded(to))
  BY LayoutKept DEF BssCleared, DataLoaded
<1> QED BY <1>2, <1>3, <1>4

LEMMA StartStep == BootInv /\ _start => BootInv'
<1> SUFFICES ASSUME BootInv, _start PROVE BootInv'
  OBVIOUS
<1>1. /\ r2' = bss_start /\ r3' = bss_end
      /\ step' = IF bss_start = bss_end THEN "call alt_load" ELSE "clear"
      /\ UNCHANGED <<layout, ALT_STACK_CHECK, memory, section, offset, et>>
  BY BootTypes, LoadIsCalled DEF _start
<1>2. bss_start \in 0 .. end /\ bss_end \in 0 .. end /\ bss_start \in Nat
  BY BootTypes, Addresses
<1>3. BssCleared(bss_start) BY <1>2 DEF BssCleared
<1>4. /\ BootTypeOK' /\ \A a \in 0 .. end' : InImage(a)' => memory'[a] = ImageWord(a)
      /\ \A to : BssCleared(to)' <=> BssCleared(to)
  BY <1>1, <1>2, BootTypes, QuietStep
<1>5. bss_start # bss_end => bss_start \in bss_start .. bss_end - 1 BY BootTypes, Addresses
<1> QED BY <1>1, <1>3, <1>4, <1>5, LayoutKept DEF BootInv

LEMMA ClearStep == BootInv /\ ClearBss => BootInv'
<1> SUFFICES ASSUME BootInv, ClearBss PROVE BootInv'
  OBVIOUS
<1>1. /\ step = "clear" /\ r2 \in bss_start .. bss_end - 1 /\ r3 = bss_end /\ BssCleared(r2)
  BY DEF BootInv, ClearBss
<1>2. /\ bss_start \in Nat /\ bss_end \in Nat /\ end = bss_end
      /\ ram_rwdata_start \in Nat /\ ram_rwdata_end \in Nat
      /\ ram_rwdata_start < ram_rwdata_end /\ ram_rwdata_end <= bss_start
  <2>1. layout.rwdata \in Nat /\ bss_start = ram_rwdata_end + layout.rwdata
    BY BootTypes, Addresses
  <2> QED BY <2>1, BootTypes, Addresses
<1>3. PICK p \in Nat : p = r2 /\ bss_start <= p /\ p < bss_end BY <1>1, <1>2
<1>4. /\ memory' = [memory EXCEPT ![p] = 0] /\ r2' = p + 1
      /\ step' = IF p + 1 < bss_end THEN "clear" ELSE "call alt_load"
      /\ UNCHANGED <<layout, ALT_STACK_CHECK, r3, section, offset, et>>
  BY <1>1, <1>3, BootTypes, LoadIsCalled DEF ClearBss
<1>5. p \in 0 .. end /\ ~InImage(p) /\ 0 \in 0 .. end
  <2>1. p \in 0 .. end /\ 0 \in 0 .. end BY <1>2, <1>3
  <2>2. ~(p < ram_rwdata_start) /\ ~(p < bss_start) BY <1>2, <1>3
  <2> QED BY <2>1, <2>2, ImageIs, BootTypes
<1>6. /\ memory' \in [0 .. end' -> 0 .. end' \cup {Stale}]
      /\ \A a \in 0 .. end' : InImage(a)' => memory'[a] = ImageWord(a)
      /\ memory'[p] = 0 /\ \A a \in 0 .. end : a # p => memory'[a] = memory[a]
  BY <1>4, <1>5, StoreKeepsImage
<1>7. BssCleared(p + 1)'
  <2>1. ASSUME NEW a \in bss_start .. p PROVE memory'[a] = 0
    <3>1. CASE a = p BY <1>6, <3>1
    <3>2. CASE a # p
      <4>1. a \in bss_start .. p - 1 /\ a \in 0 .. end BY <1>2, <1>3, <3>2
      <4>2. memory[a] = 0 BY <1>1, <1>3, <4>1 DEF BssCleared
      <4> QED BY <1>6, <3>2, <4>1, <4>2
    <3> QED BY <3>1, <3>2
  <2>2. (p + 1) - 1 = p OBVIOUS
  <2>3. bss_start' = bss_start BY <1>4, LayoutKept
  <2> QED BY <2>1, <2>2, <2>3 DEF BssCleared
<1>8. p + 1 \in 0 .. end BY <1>2, <1>3
<1>9. BootTypeOK'
  <2>1. end' = end BY <1>4, LayoutKept
  <2>2. /\ r2' \in 0 .. end' /\ r3' \in 0 .. end' /\ section' \in 1 .. 3
        /\ offset' \in 0 .. layout'.rwdata /\ layout' \in Layouts
        /\ ALT_STACK_CHECK' \in BOOLEAN
    BY <1>4, <1>8, <2>1, BootTypes
  <2> QED BY <1>4, <1>6, <2>2 DEF BootTypeOK
<1>10. CASE p + 1 < bss_end
  <2>1. step' = "clear" /\ r2' \in bss_start .. bss_end - 1 /\ r3' = bss_end
    BY <1>1, <1>2, <1>3, <1>4, <1>10
  <2> QED BY <1>4, <1>6, <1>7, <1>9, <2>1, LayoutKept DEF BootInv
<1>11. CASE ~(p + 1 < bss_end)
  <2>0. p + 1 = bss_end BY <1>2, <1>3, <1>11
  <2>1. step' = "call alt_load" /\ p + 1 = bss_end BY <1>4, <1>11, <2>0
  <2>2. BssCleared(bss_end)' BY <1>4, <1>7, <2>1, LayoutKept DEF BssCleared
  <2> QED BY <1>6, <1>9, <2>1, <2>2 DEF BootInv
<1> QED BY <1>10, <1>11

LEMMA LoadSectionStep == BootInv /\ alt_load_section => BootInv'
<1> SUFFICES ASSUME BootInv, alt_load_section PROVE BootInv'
  OBVIOUS
<1>1. /\ step = "alt_load" /\ section \in 1 .. 3
      /\ LoadedSections[section].to # LoadedSections[section].from
  BY BootTypes DEF alt_load_section
<1>2. section = 1 BY <1>1, SectionsAre
<1>3. /\ LoadedSections[1].from = ram_rwdata_end /\ LoadedSections[1].to = ram_rwdata_start
      /\ LoadedSections[1].end = ram_rwdata_end
  BY SectionsAre, BootTypes, Addresses
<1> DEFINE at == ram_rwdata_start + offset
<1>4. /\ at # ram_rwdata_end
      /\ memory' = [memory EXCEPT ![at] = memory[ram_rwdata_end + offset]]
      /\ offset' = offset + 1
      /\ UNCHANGED <<layout, ALT_STACK_CHECK, step, r2, r3, section, et>>
  BY <1>2, <1>3 DEF alt_load_section
<1>5. /\ ram_rwdata_start \in Nat /\ ram_rwdata_end \in Nat /\ bss_start \in Nat
      /\ bss_end \in Nat /\ end = bss_end /\ offset \in Nat /\ offset < layout.rwdata
      /\ ram_rwdata_end = ram_rwdata_start + layout.rwdata
      /\ bss_start = ram_rwdata_end + layout.rwdata /\ bss_start <= bss_end
      /\ layout.rwdata \in Nat
  <2>1. offset \in 0 .. layout.rwdata /\ layout \in Layouts BY BootTypes
  <2> QED BY <1>4, <2>1, Addresses
<1>6. PICK x \in 0 .. end, y \in 0 .. end :
        /\ x = at /\ y = ram_rwdata_end + offset
        /\ ~InImage(x) /\ InImage(y) /\ LoadedAt(x) = y /\ x < ram_rwdata_end /\ x < bss_start
  <2>1. at \in 0 .. end /\ ram_rwdata_end + offset \in 0 .. end BY <1>5
  <2>2. PICK x \in 0 .. end, y \in 0 .. end : x = at /\ y = ram_rwdata_end + offset BY <2>1
  <2>3. ~InImage(x) /\ InImage(y) /\ LoadedAt(x) = y
    <3>1. ~(x < ram_rwdata_start) /\ x < ram_rwdata_end /\ ram_rwdata_end <= y /\ y < bss_start
      BY <1>5, <2>2
    <3>2. x - ram_rwdata_start + ram_rwdata_end = y BY <1>5, <2>2
    <3>3. ~(ram_rwdata_end <= x) BY <1>5, <3>1
    <3> QED BY <3>1, <3>2, <3>3, ImageIs, BootTypes
  <2> QED BY <1>5, <2>2, <2>3
<1>7. PICK v \in 0 .. end \cup {Stale} : v = memory[y] BY BootTypes
<1>8. v = ImageWord(LoadedAt(x)) BY <1>6, <1>7 DEF BootInv
<1>9. /\ memory' \in [0 .. end' -> 0 .. end' \cup {Stale}]
      /\ \A a \in 0 .. end' : InImage(a)' => memory'[a] = ImageWord(a)
      /\ memory'[x] = v /\ \A a \in 0 .. end : a # x => memory'[a] = memory[a]
  <2>1. memory' = [memory EXCEPT ![x] = v] BY <1>4, <1>6, <1>7
  <2> QED BY <1>4, <1>6, <2>1, StoreKeepsImage
<1>10. DataLoaded(at) /\ BssCleared(bss_end)
  BY <1>1, <1>2 DEF BootInv
<1>11. DataLoaded(x + 1)'
  <2>1. ASSUME NEW a \in ram_rwdata_start .. x PROVE memory'[a] = ImageWord(LoadedAt(a))
    <3>1. CASE a = x BY <1>8, <1>9, <3>1
    <3>2. CASE a # x
      <4>1. a \in ram_rwdata_start .. at - 1 /\ a \in 0 .. end BY <1>5, <1>6, <3>2
      <4> QED BY <1>9, <1>10, <3>2, <4>1 DEF DataLoaded
    <3> QED BY <3>1, <3>2
  <2>2. (x + 1) - 1 = x BY <1>5
  <2> QED BY <1>4, <2>1, <2>2, LayoutKept DEF DataLoaded
<1>12. BssCleared(bss_end)'
  <2>1. ASSUME NEW a \in bss_start .. bss_end - 1 PROVE memory'[a] = 0
    <3>1. a \in 0 .. end /\ a # x BY <1>5, <1>6
    <3> QED BY <1>9, <1>10, <3>1 DEF BssCleared
  <2> QED BY <1>4, <2>1, LayoutKept DEF BssCleared
<1>13. offset' \in 0 .. layout.rwdata /\ (ram_rwdata_start + offset)' = x + 1
  BY <1>4, <1>5, <1>6, LayoutKept
<1>14. BootTypeOK' BY <1>4, <1>9, <1>13, LayoutKept, BootTypes DEF BootTypeOK, BootInv
<1>15. ALT_STACK_CHECK' => et' = 0 BY <1>1, <1>4 DEF BootInv
<1> QED BY <1>1, <1>2, <1>4, <1>9, <1>11, <1>12, <1>13, <1>14, <1>15 DEF BootInv

LEMMA QuietSteps ==
  BootInv /\ (Reset \/ CallAltLoad \/ alt_load \/ LoadStackLimit \/ CallAltMain) => BootInv'
<1> SUFFICES ASSUME BootInv,
                    Reset \/ CallAltLoad \/ alt_load \/ LoadStackLimit \/ CallAltMain
             PROVE  BootInv'
  OBVIOUS
<1> USE BootTypes
<1>1. /\ UNCHANGED <<layout, ALT_STACK_CHECK, memory>> /\ UNCHANGED <<r2, r3>>
      /\ step' \in {"_start", "clear", "call alt_load", "alt_load", "limit",
                    "call alt_main", "alt_main"}
  BY DEF Reset, CallAltLoad, alt_load, LoadStackLimit, CallAltMain, BootInv, BootTypeOK
<1>2. layout.rwdata \in Nat BY Addresses
<1>3. section' \in 1 .. 3 /\ offset' \in 0 .. layout.rwdata
  <2>0. 1 \in 1 .. 3 /\ 0 \in 0 .. layout.rwdata BY <1>2
  <2>1. CASE Reset \/ LoadStackLimit \/ CallAltMain
    BY <2>1 DEF Reset, LoadStackLimit, CallAltMain
  <2>2. CASE CallAltLoad BY <2>0, <2>2 DEF CallAltLoad
  <2>3. CASE alt_load BY <1>2, <2>3, SectionsAre DEF alt_load
  <2> QED BY <2>1, <2>2, <2>3
<1>4. /\ BootTypeOK' /\ \A a \in 0 .. end' : InImage(a)' => memory'[a] = ImageWord(a)
      /\ \A to : (BssCleared(to)' <=> BssCleared(to)) /\ (DataLoaded(to)' <=> DataLoaded(to))
  BY <1>1, <1>3, QuietStep
<1>5. /\ bss_end' = bss_end /\ ram_rwdata_start' = ram_rwdata_start
      /\ ram_rwdata_end' = ram_rwdata_end
  BY <1>1, LayoutKept
<1>6. CASE Reset BY <1>4, <1>6 DEF Reset, BootInv
<1>7. CASE CallAltLoad
  <2>1. /\ step' = "alt_load" /\ section' = 1 /\ offset' = 0 /\ (ALT_STACK_CHECK => et' = 0)
        /\ BssCleared(bss_end)
    BY <1>7 DEF CallAltLoad, BootInv
  <2>2. ram_rwdata_start \in Nat /\ ram_rwdata_start + 0 = ram_rwdata_start BY Addresses
  <2>3. DataLoaded(ram_rwdata_start + 0) BY <2>2 DEF DataLoaded
  <2> QED BY <1>1, <1>4, <1>5, <2>1, <2>3 DEF BootInv
<1>8. CASE alt_load
  <2>1. /\ step = "alt_load" /\ offset' = 0 /\ et' = et /\ BssCleared(bss_end)
        /\ ALT_STACK_CHECK => et = 0
        /\ \/ section < 3 /\ section' = section + 1 /\ step' = step
           \/ section' = 1 /\ step' = "limit"
    BY <1>8, SectionsAre DEF alt_load, BootInv
  <2>2. DataLoaded(ram_rwdata_end)
    <3>1. CASE section = 1
      <4>1. ram_rwdata_start + offset = ram_rwdata_end
        BY <1>8, <3>1, SectionsAre, Addresses DEF alt_load
      <4> QED BY <2>1, <3>1, <4>1 DEF BootInv
    <3>2. CASE section > 1 BY <2>1, <3>2 DEF BootInv
    <3> QED BY <3>1, <3>2
  <2>3. section < 3 /\ section' = section + 1 => section' > 1 OBVIOUS
  <2> QED BY <1>1, <1>4, <1>5, <2>1, <2>2, <2>3 DEF BootInv
<1>9. CASE LoadStackLimit
  <2>1. /\ step' = "call alt_main" /\ BssCleared(bss_end) /\ DataLoaded(ram_rwdata_end)
        /\ ALT_STACK_CHECK => et' = memory[alt_stack_limit_value]
    BY <1>9 DEF LoadStackLimit, BootInv
  <2>2. alt_stack_limit_value \in ram_rwdata_start .. ram_rwdata_end - 1
    BY Addresses DEF alt_stack_limit_value
  <2>3. memory[alt_stack_limit_value] = ImageWord(LoadedAt(alt_stack_limit_value))
    BY <2>1, <2>2 DEF DataLoaded
  <2>4. LoadedAt(alt_stack_limit_value)' = LoadedAt(alt_stack_limit_value)
    BY <1>1 DEF LoadedAt, alt_stack_limit_value, ReadOnly, ram_rwdata_start, ram_rodata_start,
       flash_rwdata_start, ram_rwdata_end
  <2> QED BY <1>1, <1>4, <1>5, <2>1, <2>3, <2>4 DEF BootInv
<1>10. CASE CallAltMain BY <1>4, <1>10 DEF CallAltMain, BootInv
<1> QED BY <1>6, <1>7, <1>8, <1>9, <1>10

LEMMA StoreStep == BootInv /\ Store => BootInv'
<1> SUFFICES ASSUME BootInv, Store PROVE BootInv'
  OBVIOUS
<1>1. PICK x \in ProgramData : memory' = [memory EXCEPT ![x] = Stale] BY DEF Store
<1>2. /\ step = "alt_main"
      /\ UNCHANGED <<layout, ALT_STACK_CHECK, step, r2, r3, section, offset, et>>
  BY DEF Store
<1>3. x \in 0 .. end /\ ~InImage(x)
  <2>1. /\ ram_rwdata_start \in Nat /\ ram_rwdata_end \in Nat /\ bss_start \in Nat
        /\ bss_end \in Nat /\ end = bss_end /\ ram_rwdata_start < ram_rwdata_end
        /\ ram_rwdata_end <= bss_start /\ bss_start <= bss_end
    <3>1. layout.rwdata \in Nat /\ bss_start = ram_rwdata_end + layout.rwdata
      BY BootTypes, Addresses
    <3> QED BY <3>1, BootTypes, Addresses
  <2>2. x \in ram_rwdata_start .. ram_rwdata_end - 1 \/ x \in bss_start .. end
    BY DEF ProgramData
  <2>3. x \in 0 .. end BY <2>1, <2>2
  <2>4. ~(x < ram_rwdata_start) /\ ~(ram_rwdata_end <= x /\ x < bss_start) BY <2>1, <2>2
  <2> QED BY <2>3, <2>4, ImageIs, BootTypes
<1>4. /\ memory' \in [0 .. end' -> 0 .. end' \cup {Stale}]
      /\ \A a \in 0 .. end' : InImage(a)' => memory'[a] = ImageWord(a)
  BY <1>1, <1>2, <1>3, StoreKeepsImage
<1>5. BootTypeOK'
  <2>1. end' = end BY <1>2, LayoutKept
  <2> QED BY <1>2, <1>4, <2>1, BootTypes DEF BootTypeOK
<1> QED BY <1>2, <1>4, <1>5 DEF BootInv

LEMMA BootInitInv == BootInit => BootInv
<1> SUFFICES ASSUME BootInit PROVE BootInv
  OBVIOUS
<1>1. /\ layout \in Layouts /\ ALT_STACK_CHECK \in BOOLEAN /\ step = "_start"
      /\ r2 = 0 /\ r3 = 0 /\ section = 1 /\ offset = 0
  BY DEF BootInit
<1>2. PICK w \in {0, Stale} : memory = [a \in 0 .. end |-> IF InImage(a) THEN ImageWord(a) ELSE w]
  BY DEF BootInit
<1>3. /\ bss_start \in Nat /\ end \in Nat /\ bss_start <= end /\ layout.rwdata \in Nat
      /\ ram_rwdata_start < bss_start
  <2>1. /\ ram_rwdata_start \in Nat /\ ram_rwdata_end \in Nat
        /\ bss_start = ram_rwdata_end + layout.rwdata /\ layout.rwdata \in Nat
        /\ ram_rwdata_start < ram_rwdata_end
    BY <1>1, Addresses
  <2> QED BY <1>1, <2>1, Addresses
<1>4. ASSUME NEW a \in 0 .. end, InImage(a) PROVE ImageWord(a) \in 0 .. end
  <2>1. (a < ram_rwdata_start \/ a < bss_start) /\ ram_rwdata_start \in Nat
    BY <1>1, <1>4, ImageIs, Addresses
  <2>2. ram_rwdata_start \in Nat BY <1>1, Addresses
  <2>3. a < bss_start BY <1>3, <2>1, <2>2
  <2> QED BY <1>3, <2>3 DEF ImageWord
<1>5. memory \in [0 .. end -> 0 .. end \cup {Stale}]
  <2>1. 0 \in 0 .. end BY <1>3
  <2> QED BY <1>2, <1>4, <2>1
<1>6. \A a \in 0 .. end : InImage(a) => memory[a] = ImageWord(a) BY <1>2
<1>7. BootTypeOK
  <2>1. 0 \in 0 .. end /\ 0 \in 0 .. layout.rwdata /\ 1 \in 1 .. 3 BY <1>3
  <2> QED BY <1>1, <1>5, <2>1 DEF BootTypeOK
<1> QED BY <1>1, <1>6, <1>7 DEF BootInv

LEMMA BootSeesImage == BootInv => MainSeesImage
<1> SUFFICES ASSUME BootInv PROVE MainSeesImage
  OBVIOUS
<1>1. ASSUME step = "call alt_main", NEW a \in 0 .. ram_rwdata_end - 1
      PROVE  memory[a] = ImageWord(LoadedAt(a))
  <2>1. /\ ram_rwdata_start \in Nat /\ ram_rwdata_end \in Nat /\ ram_rwdata_end <= end
        /\ end \in Nat
    <3>1. /\ layout.rwdata \in Nat /\ bss_start = ram_rwdata_end + layout.rwdata
          /\ bss_start <= end /\ ram_rwdata_end \in Nat
      BY BootTypes, Addresses
    <3> QED BY <3>1, BootTypes, Addresses
  <2>2. a \in 0 .. end BY <2>1
  <2>3. CASE a < ram_rwdata_start
    BY <2>2, <2>3, ImageIs, BootTypes DEF BootInv
  <2>4. CASE ~(a < ram_rwdata_start)
    <3>1. a \in ram_rwdata_start .. ram_rwdata_end - 1 BY <2>1, <2>4
    <3> QED BY <1>1, <3>1 DEF BootInv, DataLoaded
  <2> QED BY <2>3, <2>4
<1> QED BY <1>1 DEF BootInv, MainSeesImage, BssCleared

(***************************************************************************)
(* What has been cleared and loaded at each step of the boot, for sections *)
(* of every size, with and without checking of the stack.                  *)
(***************************************************************************)
THEOREM BootInvCorrect == BootSpec => []BootInv
<1>1. BootInv /\ [BootNext]_bootVars => BootInv'
  <2> SUFFICES ASSUME BootInv, [BootNext]_bootVars PROVE BootInv'
    OBVIOUS
  <2>1. CASE UNCHANGED bootVars
    <3>1. UNCHANGED <<layout, ALT_STACK_CHECK, memory, step, r2, r3, section, offset, et>>
      BY <2>1 DEF bootVars
    <3>2. /\ BootTypeOK' /\ \A a \in 0 .. end' : InImage(a)' => memory'[a] = ImageWord(a)
          /\ \A to : (BssCleared(to)' <=> BssCleared(to)) /\ (DataLoaded(to)' <=> DataLoaded(to))
      BY <3>1, BootTypes, QuietStep DEF BootInv, BootTypeOK
    <3>3. LoadedAt(alt_stack_limit_value)' = LoadedAt(alt_stack_limit_value)
      BY <3>1 DEF LoadedAt, alt_stack_limit_value, ReadOnly, ram_rwdata_start,
         ram_rodata_start, flash_rwdata_start, ram_rwdata_end
    <3> QED BY <3>1, <3>2, <3>3, LayoutKept DEF BootInv
  <2>2. CASE BootNext
    BY <2>2, StartStep, ClearStep, LoadSectionStep, QuietSteps, StoreStep DEF BootNext
  <2> QED BY <2>1, <2>2
<1> QED BY <1>1, BootInitInv, PTL DEF BootSpec

\* The steps of the boot keep registers and memory in range (crt0.S).
THEOREM BootTypeCorrect == BootSpec => []BootTypeOK
<1>1. BootInv => BootTypeOK BY DEF BootInv
<1> QED BY <1>1, BootInvCorrect, PTL

(***************************************************************************)
(* MainSeesImage for sections of every size, with and without checking     *)
(* of the stack.                                                           *)
(***************************************************************************)
THEOREM MainSeesImageCorrect == BootSpec => []MainSeesImage
<1> QED BY BootInvCorrect, BootSeesImage, PTL
-----------------------------------------------------------------------------
(***************************************************************************)
(* The lists of DMA channels and flash devices, for all channels, depths   *)
(* of their queues and handles.  The inductive invariant adds that each    *)
(* list has devices of its kind only, and that no queue is over its depth. *)
(***************************************************************************)
ListsTypeOK ==
  /\ dma_list \in [Directions -> Seq(Channels)]
  /\ queue \in [Channels -> Seq(Handles)]
  /\ chan \in [Directions -> Channels \cup {NoChan}]
  /\ room \in [Directions -> 0 .. QueueDepth]
  /\ asked \in [Directions -> Names \cup {NoName}]
  /\ outstanding \subseteq [handle : Handles, name : Names \cup {NoName}, dir : Directions]

OfItsKind == \A dir \in Directions : \A k \in DOMAIN dma_list[dir] : dma_list[dir][k].dir = dir
QueuesBounded == \A dev \in Channels : Len(queue[dev]) <= QueueDepth

Awaited ==
  \A r \in outstanding :
    \E dev \in Channels : \E k \in DOMAIN queue[dev] :
      /\ queue[dev][k] = r.handle /\ dev.dir = r.dir /\ dev.name = r.name
      /\ \A e \in Channels : \A j \in DOMAIN queue[e] :
           queue[e][j] = r.handle => e = dev /\ j = k
Asked ==
  \A dev \in Channels : \A k \in DOMAIN queue[dev] :
    \E r \in outstanding : r.handle = queue[dev][k]
OpenAsAsked ==
  \A dir \in Directions :
    chan[dir] # NoChan => chan[dir].dir = dir /\ chan[dir].name = asked[dir]
RoomAsTold == chan["tx"] # NoChan => Len(queue[chan["tx"]]) + room["tx"] <= QueueDepth

ListsInv ==
  ListsTypeOK /\ OfItsKind /\ QueuesBounded /\ Awaited /\ Asked /\ OpenAsAsked /\ RoomAsTold

LEMMA NoChanIsNone == NoChan \notin Channels
<1>1. NoChan.dir \notin Directions BY DEF NoChan, Directions
<1> QED BY <1>1, DmaAssumption

\* alt_find_dev() returns a device of the list with the name, or none.
LEMMA FoundChannel ==
  ASSUME ListsInv, NEW dir \in Directions, NEW name
  PROVE  LET dev == Found(dir, name)
         IN  \/ dev = NoChan
             \/ dev \in Channels /\ dev.dir = dir /\ dev.name = name
<1> DEFINE list == dma_list[dir]
           hits == {k \in DOMAIN list : list[k].name = name}
<1>1. list \in Seq(Channels) /\ \A k \in DOMAIN list : list[k].dir = dir
  BY DEF ListsInv, ListsTypeOK, OfItsKind
<1>2. CASE hits = {}
  BY <1>2 DEF Found, FindIn
<1>3. CASE hits # {}
  <2>1. hits \subseteq Nat /\ \A k \in hits : list[k] \in Channels BY <1>1
  <2>2. \E k \in hits : \A j \in hits : k <= j BY <2>1, <1>3, LeastExists
  <2>3. (CHOOSE k \in hits : \A j \in hits : k <= j) \in hits BY <2>2
  <2>4. Found(dir, name) = list[CHOOSE k \in hits : \A j \in hits : k <= j]
    BY <1>3 DEF Found, FindIn
  <2> QED BY <1>1, <2>1, <2>3, <2>4
<1> QED BY <1>2, <1>3

\* A handle is in one place.
LEMMA OnePlace ==
  ASSUME ListsInv, NEW d \in Channels, NEW i \in DOMAIN queue[d],
         NEW e \in Channels, NEW j \in DOMAIN queue[e], queue[d][i] = queue[e][j]
  PROVE  d = e /\ i = j
<1>1. PICK r \in outstanding : r.handle = queue[d][i] BY DEF ListsInv, Asked
<1>2. PICK dev \in Channels : \E k \in DOMAIN queue[dev] :
        \A f \in Channels : \A l \in DOMAIN queue[f] :
          queue[f][l] = r.handle => f = dev /\ l = k
  BY <1>1 DEF ListsInv, Awaited
<1> QED BY <1>1, <1>2

-----------------------------------------------------------------------------
\* Registering and opening, closing, asking: no request is touched.
LEMMA ListsRegister ==
  ASSUME ListsInv, NEW dev \in Channels, Register(dev)
  PROVE  ListsInv'
<1>1. UNCHANGED <<chan, queue, asked, outstanding, room>> BY DEF Register
<1>2. dma_list' \in [Directions -> Seq(Channels)] /\ OfItsKind'
  <2>1. CASE dma_list' = dma_list BY <2>1 DEF ListsInv, ListsTypeOK, OfItsKind
  <2>2. CASE dma_list' = [dma_list EXCEPT ![dev.dir] = <<dev>> \o @]
    <3>1. dev.dir \in Directions /\ dma_list[dev.dir] \in Seq(Channels)
      BY DmaAssumption DEF ListsInv, ListsTypeOK
    <3> DEFINE old == dma_list[dev.dir]
               new == <<dev>> \o old
    <3>2. /\ new \in Seq(Channels)
          /\ \A k \in DOMAIN new : new[k] = dev \/ (k - 1 \in DOMAIN old /\ new[k] = old[k - 1])
      BY <3>1
    <3>3. /\ dma_list' \in [Directions -> Seq(Channels)] /\ dma_list'[dev.dir] = new
          /\ \A dir \in Directions \ {dev.dir} : dma_list'[dir] = dma_list[dir]
      BY <2>2, <3>1, <3>2 DEF ListsInv, ListsTypeOK
    <3> HIDE DEF new
    <3>4. \A k \in DOMAIN new : new[k].dir = dev.dir
      BY <3>1, <3>2 DEF ListsInv, OfItsKind
    <3> QED BY <3>3, <3>4 DEF ListsInv, OfItsKind
  <2> QED BY <2>1, <2>2 DEF Register
<1> QED
  BY <1>1, <1>2
  DEF ListsInv, ListsTypeOK, QueuesBounded, Awaited, Asked, OpenAsAsked, RoomAsTold

LEMMA ListsReopened ==
  ASSUME ListsInv, UNCHANGED <<dma_list, queue, outstanding>>, NEW dir \in Directions,
         NEW dev \in Channels \cup {NoChan}, NEW name \in Names \cup {NoName},
         dev # NoChan => dev.dir = dir /\ dev.name = name,
         chan' = [chan EXCEPT ![dir] = dev], asked' = [asked EXCEPT ![dir] = name],
         room' = [room EXCEPT ![dir] = 0] \/ (room' = room /\ dir # "tx")
  PROVE  ListsInv'
<1>1. /\ chan' \in [Directions -> Channels \cup {NoChan}]
      /\ asked' \in [Directions -> Names \cup {NoName}]
      /\ chan'[dir] = dev /\ asked'[dir] = name
      /\ \A other \in Directions \ {dir} : chan'[other] = chan[other] /\ asked'[other] = asked[other]
  BY DEF ListsInv, ListsTypeOK
<1>2. /\ room' \in [Directions -> 0 .. QueueDepth]
      /\ dir = "tx" => room'["tx"] = 0
      /\ dir # "tx" => room'["tx"] = room["tx"]
  <2>1. 0 \in 0 .. QueueDepth BY DmaAssumption
  <2> QED BY <2>1 DEF ListsInv, ListsTypeOK, Directions
<1>3. ListsTypeOK' BY <1>1, <1>2 DEF ListsInv, ListsTypeOK
<1>4. OpenAsAsked' BY <1>1 DEF ListsInv, OpenAsAsked
<1>5. RoomAsTold'
  <2>1. CASE dir = "tx"
    <3>1. dev \in Channels => Len(queue[dev]) \in Nat /\ Len(queue[dev]) <= QueueDepth
      BY DEF ListsInv, ListsTypeOK, QueuesBounded
    <3> QED BY <1>1, <1>2, <2>1, <3>1 DEF RoomAsTold
  <2>2. CASE dir # "tx"
    BY <1>1, <1>2, <2>2 DEF ListsInv, RoomAsTold, Directions
  <2> QED BY <2>1, <2>2
<1> QED BY <1>3, <1>4, <1>5 DEF ListsInv, OfItsKind, QueuesBounded, Awaited, Asked

LEMMA ListsOpen ==
  ASSUME ListsInv, NEW name \in Names,
         \/ alt_dma_txchan_open(name) \/ alt_dma_rxchan_open(name) \/ alt_flash_open_dev(name)
  PROVE  ListsInv'
<1>1. \A dir \in Directions : Found(dir, name) \in Channels \cup {NoChan}
        /\ (Found(dir, name) # NoChan =>
              Found(dir, name).dir = dir /\ Found(dir, name).name = name)
  BY FoundChannel
<1>2. "tx" \in Directions /\ "rx" \in Directions /\ "flash" \in Directions /\ "flash" # "tx"
  BY DEF Directions
<1>3. CASE alt_dma_txchan_open(name)
  BY <1>1, <1>2, <1>3, ListsReopened DEF alt_dma_txchan_open, Open
<1>4. CASE alt_dma_rxchan_open(name)
  BY <1>1, <1>2, <1>4, ListsReopened DEF alt_dma_rxchan_open, Open
<1>5. CASE alt_flash_open_dev(name)
  <2>1. PICK fd \in {Found("flash", name), NoChan} : chan' = [chan EXCEPT !["flash"] = fd]
    BY <1>5 DEF alt_flash_open_dev
  <2> QED BY <1>1, <1>2, <1>5, <2>1, ListsReopened DEF alt_flash_open_dev
<1> QED BY <1>3, <1>4, <1>5

LEMMA ListsClose ==
  ASSUME ListsInv, NEW dir \in Directions, Close(dir)
  PROVE  ListsInv'
  BY ListsReopened DEF Close

-----------------------------------------------------------------------------
LEMMA ListsPost ==
  ASSUME ListsInv, NEW dir \in {"tx", "rx"}, NEW handle \in Handles, Post(dir, handle)
  PROVE  ListsInv'
<1> DEFINE dev == chan[dir]
           left == IF room[dir] > 0 THEN room[dir] - 1 ELSE 0
<1>0. /\ dir \in Directions /\ "tx" \in Directions /\ QueueDepth \in Nat
      /\ room[dir] \in 0 .. QueueDepth
  BY DmaAssumption DEF Directions, ListsInv, ListsTypeOK
<1>1. left \in 0 .. QueueDepth BY <1>0
<1>2. /\ room' \in [Directions -> 0 .. QueueDepth] /\ room'[dir] = left
      /\ dir # "tx" => room'["tx"] = room["tx"]
  <2>1. room' = [room EXCEPT ![dir] = left] BY DEF Post
  <2> HIDE DEF left
  <2> QED BY <1>0, <1>1, <2>1 DEF ListsInv, ListsTypeOK
<1>3. CASE dma_ret' # "0"
  <2>1. UNCHANGED <<dma_list, chan, asked, outstanding, queue>>
    BY <1>3 DEF Post, Take, NoDevice
  <2>2. room'["tx"] <= room["tx"] BY <1>0, <1>2 DEF ListsInv, ListsTypeOK
  <2>3. RoomAsTold'
    <3>1. chan["tx"] # NoChan => Len(queue[chan["tx"]]) \in Nat
      BY <1>0 DEF ListsInv, ListsTypeOK
    <3> QED BY <1>0, <1>2, <2>1, <2>2, <3>1 DEF ListsInv, ListsTypeOK, RoomAsTold
  <2> QED
    BY <1>2, <2>1, <2>3
    DEF ListsInv, ListsTypeOK, OfItsKind, QueuesBounded, Awaited, Asked, OpenAsAsked
<1>4. CASE dma_ret' = "0"
  <2> DEFINE new == [handle |-> handle, name |-> asked[dir], dir |-> dir]
             n == Len(queue[dev])
  <2>1. /\ dev \in Channels /\ Len(queue[dev]) < QueueDepth
        /\ queue' = [queue EXCEPT ![dev] = Append(@, handle)]
        /\ outstanding' = outstanding \cup {new}
        /\ UNCHANGED <<dma_list, chan, asked>>
        /\ \A r \in outstanding : r.handle # handle
    BY <1>0, <1>4 DEF Post, Take, NoDevice, Accepts, ListsInv, ListsTypeOK
  <2>2. dev.dir = dir /\ dev.name = asked[dir]
    BY <1>0, <2>1, NoChanIsNone DEF ListsInv, OpenAsAsked
  <2>3. /\ queue[dev] \in Seq(Handles) /\ n \in Nat
        /\ Append(queue[dev], handle) \in Seq(Handles)
        /\ Len(Append(queue[dev], handle)) = n + 1
        /\ DOMAIN Append(queue[dev], handle) = 1 .. n + 1
        /\ \A k \in 1 .. n : Append(queue[dev], handle)[k] = queue[dev][k]
        /\ Append(queue[dev], handle)[n + 1] = handle
    BY <2>1 DEF ListsInv, ListsTypeOK
  <2>4. /\ queue' \in [Channels -> Seq(Handles)]
        /\ queue'[dev] = Append(queue[dev], handle)
        /\ \A e \in Channels \ {dev} : queue'[e] = queue[e]
    BY <2>1, <2>3 DEF ListsInv, ListsTypeOK
  <2>5. /\ n + 1 \in DOMAIN queue'[dev] /\ queue'[dev][n + 1] = handle
        /\ Len(queue'[dev]) = n + 1
        /\ \A e \in Channels : \A k \in DOMAIN queue[e] :
             k \in DOMAIN queue'[e] /\ queue'[e][k] = queue[e][k]
        /\ \A e \in Channels : \A k \in DOMAIN queue'[e] :
             \/ k \in DOMAIN queue[e] /\ queue'[e][k] = queue[e][k]
             \/ e = dev /\ k = n + 1
    <3>1. n + 1 \in 1 .. n + 1 /\ (\A k \in 1 .. n + 1 : k \in 1 .. n \/ k = n + 1)
          /\ 1 .. n \subseteq 1 .. n + 1 /\ DOMAIN queue[dev] = 1 .. n
      BY <2>3
    <3> HIDE DEF n, dev
    <3> QED BY <2>1, <2>3, <2>4, <3>1
  <2>6. \A e \in Channels : \A k \in DOMAIN queue[e] : queue[e][k] # handle
    BY <2>1 DEF ListsInv, Asked
  <2> HIDE DEF n, dev
  <2>7. Awaited'
    <3> SUFFICES ASSUME NEW r \in outstanding'
                 PROVE  \E d \in Channels : \E k \in DOMAIN queue'[d] :
                          /\ queue'[d][k] = r.handle /\ d.dir = r.dir /\ d.name = r.name
                          /\ \A e \in Channels : \A j \in DOMAIN queue'[e] :
                               queue'[e][j] = r.handle => e = d /\ j = k
      BY DEF Awaited
    <3>1. CASE r \in outstanding
      <4>1. PICK d \in Channels : \E k \in DOMAIN queue[d] :
              /\ queue[d][k] = r.handle /\ d.dir = r.dir /\ d.name = r.name
              /\ \A e \in Channels : \A j \in DOMAIN queue[e] :
                   queue[e][j] = r.handle => e = d /\ j = k
        BY <3>1 DEF ListsInv, Awaited
      <4>2. r.handle # handle BY <2>1, <3>1
      <4> QED BY <2>5, <4>1, <4>2
    <3>2. CASE r = new
      <4>1. r.handle = handle /\ r.dir = dev.dir /\ r.name = dev.name BY <2>2, <3>2
      <4> QED BY <2>1, <2>5, <2>6, <4>1
    <3> QED BY <2>1, <3>1, <3>2
  <2>8. Asked'
    <3>1. new.handle = handle OBVIOUS
    <3>2. \A e \in Channels : \A k \in DOMAIN queue[e] :
            \E r \in outstanding' : r.handle = queue[e][k]
      BY <2>1 DEF ListsInv, Asked
    <3>3. ASSUME NEW e \in Channels, NEW k \in DOMAIN queue'[e]
          PROVE  \E r \in outstanding' : r.handle = queue'[e][k]
      <4>1. CASE k \in DOMAIN queue[e] /\ queue'[e][k] = queue[e][k] BY <3>2, <4>1
      <4>2. CASE e = dev /\ k = n + 1 BY <2>1, <2>5, <3>1, <4>2
      <4> QED BY <2>5, <3>3, <4>1, <4>2
    <3> QED BY <3>3 DEF Asked
  <2>9. QueuesBounded'
    BY <2>1, <2>3, <2>4, <2>5, <1>0 DEF ListsInv, QueuesBounded, n
  <2>10. RoomAsTold'
    <3>1. CASE dir = "tx"
      <4>1. n + room[dir] <= QueueDepth /\ n < QueueDepth
        BY <2>1, <3>1, NoChanIsNone DEF ListsInv, RoomAsTold, n, dev
      <4>2. Len(queue'[chan'["tx"]]) = n + 1 /\ room'["tx"] = left
        BY <1>2, <2>1, <2>5, <3>1 DEF dev
      <4> QED BY <1>0, <2>3, <4>1, <4>2 DEF RoomAsTold
    <3>2. CASE dir # "tx"
      <4>1. chan["tx"] # NoChan => chan["tx"] \in Channels /\ chan["tx"].dir = "tx"
        BY <1>0 DEF ListsInv, ListsTypeOK, OpenAsAsked
      <4>2. chan["tx"] # dev \/ chan["tx"] = NoChan BY <2>2, <3>2, <4>1
      <4> QED BY <1>2, <2>1, <2>4, <3>2, <4>1, <4>2 DEF ListsInv, RoomAsTold
    <3> QED BY <3>1, <3>2
  <2>11. ListsTypeOK'
    <3>1. new \in [handle : Handles, name : Names \cup {NoName}, dir : Directions]
      BY <1>0 DEF ListsInv, ListsTypeOK
    <3> QED BY <1>2, <2>1, <2>4, <3>1 DEF ListsInv, ListsTypeOK
  <2> QED BY <2>1, <2>7, <2>8, <2>9, <2>10, <2>11 DEF ListsInv, OfItsKind, OpenAsAsked
<1> QED BY <1>3, <1>4

LEMMA ListsDone ==
  ASSUME ListsInv, NEW dev \in Channels, Done(dev)
  PROVE  ListsInv'
<1> DEFINE n == Len(queue[dev])
<1>1. /\ queue[dev] \in Seq(Handles) /\ queue[dev] # <<>>
      /\ queue' = [queue EXCEPT ![dev] = Tail(@)]
      /\ outstanding' = {r \in outstanding : r.handle # Head(queue[dev])}
      /\ UNCHANGED <<dma_list, chan, asked, room>>
  BY DEF Done, ListsInv, ListsTypeOK
<1>2. /\ n \in Nat /\ n >= 1 /\ Head(queue[dev]) = queue[dev][1]
      /\ Tail(queue[dev]) \in Seq(Handles) /\ Len(Tail(queue[dev])) = n - 1
      /\ \A k \in 1 .. n - 1 : Tail(queue[dev])[k] = queue[dev][k + 1]
      /\ DOMAIN queue[dev] = 1 .. n /\ DOMAIN Tail(queue[dev]) = 1 .. n - 1
  BY <1>1
<1>3. /\ queue' \in [Channels -> Seq(Handles)] /\ queue'[dev] = Tail(queue[dev])
      /\ \A e \in Channels \ {dev} : queue'[e] = queue[e]
  BY <1>1, <1>2 DEF ListsInv, ListsTypeOK
<1>4. 1 \in DOMAIN queue[dev] BY <1>2
<1>5. /\ \A k \in DOMAIN queue'[dev] : k + 1 \in DOMAIN queue[dev] /\ k + 1 # 1
                                       /\ queue'[dev][k] = queue[dev][k + 1]
      /\ \A k \in DOMAIN queue[dev] : k # 1 =>
           k - 1 \in DOMAIN queue'[dev] /\ queue'[dev][k - 1] = queue[dev][k]
  BY <1>2, <1>3
<1>6. Awaited'
  <2> SUFFICES ASSUME NEW r \in outstanding'
               PROVE  \E d \in Channels : \E k \in DOMAIN queue'[d] :
                        /\ queue'[d][k] = r.handle /\ d.dir = r.dir /\ d.name = r.name
                        /\ \A e \in Channels : \A j \in DOMAIN queue'[e] :
                             queue'[e][j] = r.handle => e = d /\ j = k
    BY DEF Awaited
  <2>1. r \in outstanding /\ r.handle # queue[dev][1] BY <1>1, <1>2
  <2>2. PICK d \in Channels : \E k \in DOMAIN queue[d] :
          /\ queue[d][k] = r.handle /\ d.dir = r.dir /\ d.name = r.name
          /\ \A e \in Channels : \A j \in DOMAIN queue[e] :
               queue[e][j] = r.handle => e = d /\ j = k
    BY <2>1 DEF ListsInv, Awaited
  <2>3. PICK k \in DOMAIN queue[d] :
          /\ queue[d][k] = r.handle /\ d.dir = r.dir /\ d.name = r.name
          /\ \A e \in Channels : \A j \in DOMAIN queue[e] :
               queue[e][j] = r.handle => e = d /\ j = k
    BY <2>2
  <2>4. CASE d # dev
    <3>1. \A e \in Channels : \A j \in DOMAIN queue'[e] :
            queue'[e][j] = r.handle => e = d /\ j = k
      <4>1. \A j \in DOMAIN queue'[dev] : queue'[dev][j] # r.handle
        BY <1>5, <2>3, <2>4
      <4>2. \A e \in Channels \ {dev} : \A j \in DOMAIN queue'[e] :
              queue'[e][j] = r.handle => e = d /\ j = k
        BY <1>3, <2>3
      <4> QED BY <4>1, <4>2
    <3> QED BY <1>3, <2>3, <2>4, <3>1
  <2>5. CASE d = dev
    <3>1. k # 1 /\ k \in Nat BY <1>2, <2>1, <2>3, <2>5
    <3>2. k - 1 \in DOMAIN queue'[d] /\ queue'[d][k - 1] = r.handle BY <1>5, <2>3, <2>5, <3>1
    <3>3. \A e \in Channels \ {dev} : \A j \in DOMAIN queue'[e] : queue'[e][j] # r.handle
      BY <1>3, <2>3, <2>5
    <3>4. ASSUME NEW j \in DOMAIN queue'[dev], queue'[dev][j] = r.handle PROVE j = k - 1
      <4>1. j + 1 = k BY <1>5, <2>3, <2>5, <3>4
      <4>2. j \in Nat BY <1>2, <1>3
      <4> QED BY <3>1, <4>1, <4>2
    <3> QED BY <2>3, <2>5, <3>2, <3>3, <3>4
  <2> QED BY <2>4, <2>5
<1>7. Asked'
  <2>1. ASSUME NEW e \in Channels, NEW k \in DOMAIN queue[e], ~(e = dev /\ k = 1)
        PROVE  \E r \in outstanding' : r.handle = queue[e][k]
    <3>1. PICK r \in outstanding : r.handle = queue[e][k] BY DEF ListsInv, Asked
    <3>2. queue[e][k] # queue[dev][1] BY <1>4, <2>1, OnePlace
    <3> QED BY <1>1, <1>2, <3>1, <3>2
  <2>2. ASSUME NEW e \in Channels, NEW k \in DOMAIN queue'[e]
        PROVE  \E r \in outstanding' : r.handle = queue'[e][k]
    <3>1. CASE e # dev BY <1>3, <2>1, <2>2, <3>1
    <3>2. CASE e = dev
      <4>1. k + 1 \in DOMAIN queue[dev] /\ k + 1 # 1 /\ queue'[dev][k] = queue[dev][k + 1]
        BY <1>5, <2>2, <3>2
      <4> QED BY <2>1, <3>2, <4>1
    <3> QED BY <3>1, <3>2
  <2> QED BY <2>2 DEF Asked
<1>8. QueuesBounded' /\ RoomAsTold'
  <2>1. \A e \in Channels : Len(queue[e]) \in Nat /\ Len(queue'[e]) \in Nat
                            /\ Len(queue'[e]) <= Len(queue[e])
    <3>1. \A e \in Channels : Len(queue[e]) \in Nat BY DEF ListsInv, ListsTypeOK
    <3>2. \A e \in Channels \ {dev} : Len(queue'[e]) = Len(queue[e]) BY <1>3
    <3>3. Len(queue'[dev]) = n - 1 BY <1>2, <1>3
    <3>4. n - 1 \in Nat /\ n - 1 <= n BY <1>2
    <3> QED BY <3>1, <3>2, <3>3, <3>4
  <2>2. chan["tx"] # NoChan => chan["tx"] \in Channels
    BY DEF ListsInv, ListsTypeOK, Directions
  <2>3. room["tx"] \in Int /\ QueueDepth \in Int
    BY DmaAssumption DEF ListsInv, ListsTypeOK, Directions
  <2> QED BY <1>1, <2>1, <2>2, <2>3 DEF ListsInv, QueuesBounded, RoomAsTold
<1>9. ListsTypeOK' BY <1>1, <1>3 DEF ListsInv, ListsTypeOK
<1> QED BY <1>1, <1>6, <1>7, <1>8, <1>9 DEF ListsInv, OfItsKind, OpenAsAsked

LEMMA ListsAsk ==
  ASSUME ListsInv,
         \/ alt_dma_txchan_space \/ alt_dma_rxchan_depth
         \/ \E dir \in {"tx", "rx"} : Ioctl(dir)
  PROVE  ListsInv'
<1>1. UNCHANGED <<dma_list, chan, queue, asked, outstanding>>
  BY DEF alt_dma_txchan_space, alt_dma_rxchan_depth, Ioctl
<1>2. CASE UNCHANGED room
  BY <1>1, <1>2
  DEF ListsInv, ListsTypeOK, OfItsKind, QueuesBounded, Awaited, Asked, OpenAsAsked, RoomAsTold
<1>3. CASE chan["tx"] # NoChan /\ room' = [room EXCEPT !["tx"] = QueueDepth - Len(queue[chan["tx"]])]
  <2>0. chan["tx"] \in Channels /\ "tx" \in Directions
    BY <1>3 DEF ListsInv, ListsTypeOK, Directions
  <2>1. PICK n \in Nat : n = Len(queue[chan["tx"]]) /\ n <= QueueDepth
    BY <2>0 DEF ListsInv, ListsTypeOK, QueuesBounded
  <2>2. QueueDepth - n \in 0 .. QueueDepth /\ n + (QueueDepth - n) <= QueueDepth
    BY <2>1, DmaAssumption
  <2>3. room' \in [Directions -> 0 .. QueueDepth] /\ room'["tx"] = QueueDepth - n
    BY <1>3, <2>0, <2>1, <2>2 DEF ListsInv, ListsTypeOK
  <2>4. RoomAsTold' BY <1>1, <2>1, <2>2, <2>3 DEF RoomAsTold
  <2> QED
    BY <1>1, <2>3, <2>4
    DEF ListsInv, ListsTypeOK, OfItsKind, QueuesBounded, Awaited, Asked, OpenAsAsked
<1> QED BY <1>2, <1>3 DEF alt_dma_txchan_space, alt_dma_rxchan_depth, Ioctl

(***************************************************************************)
(* The lists, the queues and what the program knows of them, for every set *)
(* of channels and every depth.                                            *)
(***************************************************************************)
THEOREM ListsInvCorrect == DmaSpec => []ListsInv
<1>1. DmaInit => ListsInv
  <2> SUFFICES ASSUME DmaInit PROVE ListsInv OBVIOUS
  <2>1. 0 \in 0 .. QueueDepth BY DmaAssumption
  <2>2. ListsTypeOK /\ OpenAsAsked /\ RoomAsTold
    BY <2>1 DEF DmaInit, ListsTypeOK, OpenAsAsked, RoomAsTold, Directions
  <2>3. OfItsKind /\ QueuesBounded /\ Awaited /\ Asked
    BY DmaAssumption DEF DmaInit, OfItsKind, QueuesBounded, Awaited, Asked
  <2> QED BY <2>2, <2>3 DEF ListsInv
<1>2. ListsInv /\ [DmaNext]_dmaVars => ListsInv'
  <2> SUFFICES ASSUME ListsInv, [DmaNext]_dmaVars PROVE ListsInv' OBVIOUS
  <2> USE DEF Directions
  <2>1. ASSUME NEW dev \in Channels,
               \/ alt_dma_txchan_reg(dev) \/ alt_dma_rxchan_reg(dev)
               \/ alt_flash_device_register(dev)
        PROVE  ListsInv'
    BY <2>1, ListsRegister
    DEF alt_dma_txchan_reg, alt_dma_rxchan_reg, alt_flash_device_register
  <2>2. ASSUME NEW dev \in Channels, Done(dev) PROVE ListsInv' BY <2>2, ListsDone
  <2>3. ASSUME NEW name \in Names,
               \/ alt_dma_txchan_open(name) \/ alt_dma_rxchan_open(name)
               \/ alt_flash_open_dev(name)
        PROVE  ListsInv'
    BY <2>3, ListsOpen
  <2>4. CASE alt_dma_txchan_close \/ alt_dma_rxchan_close \/ alt_flash_close_dev
    BY <2>4, ListsClose DEF alt_dma_txchan_close, alt_dma_rxchan_close, alt_flash_close_dev
  <2>5. ASSUME NEW handle \in Handles,
               alt_dma_txchan_send(handle) \/ alt_dma_rxchan_prepare(handle)
        PROVE  ListsInv'
    BY <2>5, ListsPost DEF alt_dma_txchan_send, alt_dma_rxchan_prepare
  <2>6. CASE \/ alt_dma_txchan_space \/ alt_dma_txchan_ioctl \/ alt_dma_rxchan_ioctl
             \/ alt_dma_rxchan_depth
    BY <2>6, ListsAsk DEF alt_dma_txchan_ioctl, alt_dma_rxchan_ioctl
  <2>7. CASE UNCHANGED dmaVars
    BY <2>7
    DEF dmaVars, ListsInv, ListsTypeOK, OfItsKind, QueuesBounded, Awaited, Asked, OpenAsAsked,
        RoomAsTold
  <2> QED BY <2>1, <2>2, <2>3, <2>4, <2>5, <2>6, <2>7 DEF DmaNext
<1> QED BY <1>1, <1>2, PTL DEF DmaSpec

\* Only channels are registered, opened and asked.
THEOREM DmaTypeCorrect == DmaSpec => []DmaTypeOK
<1>1. ListsInv => DmaTypeOK BY DEF ListsInv, ListsTypeOK, DmaTypeOK
<1> QED BY <1>1, ListsInvCorrect, PTL

(***************************************************************************)
(* A program's outstanding requests are the ones the drivers hold, each in *)
(* one place and with a device of the name and kind it asked for, and      *)
(* space() can be relied on, for every set of channels and every depth     *)
(* (RequestsAtTheirDevice).                                                *)
(***************************************************************************)
THEOREM RequestsAtTheirDeviceCorrect == DmaSpec => []RequestsAtTheirDevice
<1>1. ListsInv => RequestsAtTheirDevice
  BY DEF ListsInv, Awaited, Asked, OpenAsAsked, RoomAsTold, RequestsAtTheirDevice
<1> QED BY <1>1, ListsInvCorrect, PTL
=============================================================================
