-------------------------------- MODULE AltFile --------------------------------
(***************************************************************************)
(* The file descriptors of the HAL (HAL/src/alt_{open,close,get_fd,        *)
(* release_fd,fd_lock,fd_unlock,find_dev,find_file,read,write,ioctl,fcntl, *)
(* fstat,isatty,lseek,stat,io_redirect,dev}.c of the BSP): the pool of     *)
(* descriptors, the lists of devices and file systems that open()          *)
(* searches, and the locks that TIOCEXCL takes.  There is one thread and   *)
(* no interrupt routine uses descriptors, so a call is one step.  A driver *)
(* may answer a call as it likes.                                          *)
(*                                                                         *)
(* Left out are the value F_GETFL returns, the stat structure, the offsets *)
(* and the bytes.                                                          *)
(***************************************************************************)
EXTENDS Integers, Sequences

CONSTANTS
  ALT_MAX_FD,     \* descriptors in the pool
  Devices,        \* alt_dev structures that alt_dev_reg() may register
  FileSystems,    \* alt_dev structures that alt_fs_reg() may register
  alt_dev_null,   \* the device that is there from the start
  NoDev,          \* a null pointer: the descriptor is free
  NameOf,         \* name of a device, or where a file system is mounted: a path
  Methods,        \* the calls a device has a function for
  Files,          \* the paths programs open
  Modes,          \* the access modes they open them with
  StatusFlags     \* the flags of open() and fcntl() they use

ASSUME FileAssumption ==
  /\ ALT_MAX_FD \in Nat /\ ALT_MAX_FD > 3
  /\ alt_dev_null \in Devices
  /\ Devices \cap FileSystems = {}
  /\ NoDev \notin Devices \cup FileSystems
  /\ Methods \in [Devices \cup FileSystems ->
                    SUBSET {"open", "close", "read", "write", "lseek", "fstat", "ioctl"}]
  /\ Methods[alt_dev_null] = {"write"}
  /\ Modes \subseteq {"O_RDONLY", "O_WRONLY", "O_RDWR"}
  /\ StatusFlags \subseteq {"O_APPEND", "O_NONBLOCK"}

VARIABLES
  alt_fd_list,
  alt_max_fd,     \* the highest descriptor allocated so far
  alt_dev_list,   \* newest first
  alt_fs_list,
  held,           \* descriptors the program got from open() and has not closed
  ret             \* what the last call returned, or the errno it set

poolVars == <<alt_fd_list, alt_max_fd, held>>
listVars == <<alt_dev_list, alt_fs_list>>
fileVars == <<poolVars, listVars, ret>>

Fds == 0 .. ALT_MAX_FD - 1

Ok(value) == [value |-> value, errno |-> "none"]
Fail(errno) == [value |-> -1, errno |-> errno]
Answers == {Ok(1), Fail("driver")}     \* of a driver
Failed(answer) == answer.value < 0

\* An alt_fd: O_ACCMODE and the other flags of fd_flags are kept apart.
Fd(dev, mode, flags) == [dev |-> dev, mode |-> mode, flags |-> flags]
Free == Fd(NoDev, "O_RDONLY", {})
Used(fds, fd) == fds[fd].dev # NoDev

FileInit ==
  /\ alt_fd_list = [fd \in Fds |-> IF fd <= 2 THEN Fd(alt_dev_null, "O_RDONLY", {}) ELSE Free]
  /\ alt_max_fd = -1
  /\ alt_dev_list = <<alt_dev_null>>
  /\ alt_fs_list = <<>>
  /\ held = {}
  /\ ret = Ok(0)

-----------------------------------------------------------------------------
(***************************************************************************)
(* Registration.  A file is on the file system whose mount point is a      *)
(* prefix of its path, component by component.                             *)
(***************************************************************************)
alt_dev_reg(dev) ==
  /\ alt_dev_list' = <<dev>> \o alt_dev_list
  /\ UNCHANGED <<poolVars, alt_fs_list, ret>>

alt_fs_reg(fs) ==
  /\ alt_fs_list' = <<fs>> \o alt_fs_list
  /\ UNCHANGED <<poolVars, alt_dev_list, ret>>

FirstOf(list, Matches(_)) ==
  IF \E i \in DOMAIN list : Matches(list[i])
  THEN LET hits == {i \in DOMAIN list : Matches(list[i])}
       IN  list[CHOOSE i \in hits : \A j \in hits : i <= j]
  ELSE NoDev

PrefixOf(p, q) == Len(p) <= Len(q) /\ SubSeq(q, 1, Len(p)) = p

alt_find_dev(file) == FirstOf(alt_dev_list, LAMBDA dev : NameOf[dev] = file)
alt_find_file(file) == FirstOf(alt_fs_list, LAMBDA fs : PrefixOf(NameOf[fs], file))

Owner(file) == IF alt_find_dev(file) # NoDev THEN alt_find_dev(file) ELSE alt_find_file(file)

-----------------------------------------------------------------------------
(***************************************************************************)
(* The pool.                                                               *)
(***************************************************************************)
alt_get_fd(fds) ==
  LET free == {fd \in Fds : ~Used(fds, fd)}
  IN  IF free = {} THEN -1 ELSE CHOOSE fd \in free : \A other \in free : fd <= other

Highwater(fd) == IF fd > alt_max_fd THEN fd ELSE alt_max_fd

\* Variant: nothing is released.
ReleaseNone(fds, fd) == fds

\* Standard input, output and error are never released.
alt_release_fd(fds, fd) == IF fd > 2 THEN [fds EXCEPT ![fd] = Free] ELSE fds

\* Another descriptor of the same device is locked.
alt_file_locked(fds, max, fd) ==
  \E other \in Fds :
    /\ other <= max
    /\ other # fd
    /\ fds[other].dev = fds[fd].dev
    /\ "EXCL" \in fds[other].flags

\* Variant: only a descriptor that is locked stands in the way.
LockRefusedByHolder(fds, max, fd) ==
  \E other \in Fds :
    /\ other < max
    /\ other # fd
    /\ fds[other].dev = fds[fd].dev
    /\ "EXCL" \in fds[other].flags

\* The loop of alt_fd_lock() ends before alt_max_fd.
LockRefused(fds, max, fd) ==
  \E other \in Fds : other < max /\ other # fd /\ fds[other].dev = fds[fd].dev

-----------------------------------------------------------------------------
(***************************************************************************)
(* open() claims a descriptor, then asks whether the device is locked and  *)
(* lets the driver open it, and gives the descriptor back if that fails.   *)
(* Opening is that as a function of the pool: the descriptor or the error, *)
(* the pool after it and the highest descriptor after it.                  *)
(***************************************************************************)
Opening(fds, file, mode, flags, answer) ==
  LET dev == Owner(file)
      isafs == alt_find_dev(file) = NoDev
      index == IF dev = NoDev THEN -1 ELSE alt_get_fd(fds)
      max == Highwater(index)
      claimed ==
        IF index < 0 THEN fds
        ELSE [fds EXCEPT ![index] =
                Fd(dev, mode, flags \cup (IF isafs THEN {} ELSE {"DEV"}))]
      status ==
        IF dev = NoDev THEN Fail("ENODEV")
        ELSE IF index < 0 THEN Fail("EMFILE")
        ELSE IF ~isafs /\ alt_file_locked(claimed, max, index) THEN Fail("EACCES")
        ELSE IF "open" \in Methods[dev] THEN answer
        ELSE Ok(0)
  IN  IF Failed(status)
      THEN [ret |-> status, fds |-> alt_release_fd(claimed, index), max |-> max]
      ELSE [ret |-> Ok(index), fds |-> claimed, max |-> max]

ALT_OPEN(file, mode, flags, answer) ==
  LET opened == Opening(alt_fd_list, file, mode, flags, answer)
  IN  /\ alt_fd_list' = opened.fds
      /\ alt_max_fd' = opened.max
      /\ ret' = opened.ret
      /\ held' = IF Failed(opened.ret) THEN held ELSE held \cup {opened.ret.value}
      /\ UNCHANGED listVars

\* A driver that fails to close does not keep the descriptor.
ALT_CLOSE(fd, answer) ==
  /\ IF fd < 0
     THEN /\ ret' = Fail("EBADFD")
          /\ UNCHANGED alt_fd_list
     ELSE /\ ret' = IF "close" \in Methods[alt_fd_list[fd].dev] /\ Failed(answer)
                    THEN answer ELSE Ok(0)
          /\ alt_fd_list' = alt_release_fd(alt_fd_list, fd)
  /\ held' = held \ {fd}
  /\ UNCHANGED <<alt_max_fd, listVars>>

\* open(), fstat(), close(): if the first fails the others get -1; what the last
\* returns is ignored.
ALT_STAT(file, opens, stats) ==
  LET opened == Opening(alt_fd_list, file, "O_RDONLY", {}, opens)
      fd == opened.ret.value
      dev == opened.fds[fd].dev
  IN  /\ alt_max_fd' = opened.max
      /\ IF fd < 0
         THEN /\ alt_fd_list' = opened.fds
              /\ ret' = Fail("EBADFD")
         ELSE /\ alt_fd_list' = alt_release_fd(opened.fds, fd)
              /\ ret' = IF "fstat" \in Methods[dev] THEN stats ELSE Ok(0)
      /\ UNCHANGED <<held, listVars>>

-----------------------------------------------------------------------------
(***************************************************************************)
(* ioctl() keeps TIOCEXCL and TIOCNXCL of a device to itself and passes    *)
(* the rest on; fcntl() may change the status flags alone.                 *)
(***************************************************************************)
Answered(fd, method, answer, otherwise) ==
  /\ ret' = IF fd < 0 THEN Fail("EBADFD")
            ELSE IF method \in Methods[alt_fd_list[fd].dev] THEN answer
            ELSE otherwise
  /\ UNCHANGED <<poolVars, listVars>>

SetFlags(fd, flags) == alt_fd_list' = [alt_fd_list EXCEPT ![fd].flags = flags]

alt_fd_lock(fd) ==
  /\ IF LockRefused(alt_fd_list, alt_max_fd, fd)
     THEN ret' = Fail("EACCES") /\ UNCHANGED alt_fd_list
     ELSE ret' = Ok(0) /\ SetFlags(fd, alt_fd_list[fd].flags \cup {"EXCL"})
  /\ UNCHANGED <<alt_max_fd, held, listVars>>

alt_fd_unlock(fd) ==
  /\ ret' = Ok(0)
  /\ SetFlags(fd, alt_fd_list[fd].flags \ {"EXCL"})
  /\ UNCHANGED <<alt_max_fd, held, listVars>>

ALT_IOCTL(fd, req, answer) ==
  LET isDevice == fd >= 0 /\ "DEV" \in alt_fd_list[fd].flags
  IN  \/ isDevice /\ req = "TIOCEXCL" /\ alt_fd_lock(fd)
      \/ isDevice /\ req = "TIOCNXCL" /\ alt_fd_unlock(fd)
      \/ /\ ~(isDevice /\ req \in {"TIOCEXCL", "TIOCNXCL"})
         /\ Answered(fd, "ioctl", answer, Fail("ENOTTY"))

ALT_FCNTL(fd, cmd, arg) ==
  /\ IF fd < 0
     THEN ret' = Fail("EBADFD") /\ UNCHANGED alt_fd_list
     ELSE \/ cmd = "F_GETFL" /\ ret' = Ok(0) /\ UNCHANGED alt_fd_list
          \/ /\ cmd = "F_SETFL"
             /\ SetFlags(fd, (alt_fd_list[fd].flags \ {"O_APPEND", "O_NONBLOCK"}) \cup arg)
             /\ ret' = Ok(0)
          \/ cmd = "other" /\ ret' = Fail("EINVAL") /\ UNCHANGED alt_fd_list
  /\ UNCHANGED <<alt_max_fd, held, listVars>>

-----------------------------------------------------------------------------
(***************************************************************************)
(* Calls that leave the pool alone.                                        *)
(***************************************************************************)
Refuses(fd, mode) == fd >= 0 /\ alt_fd_list[fd].mode = mode

ALT_READ(fd, answer) ==
  IF Refuses(fd, "O_WRONLY")
  THEN ret' = Fail("EACCES") /\ UNCHANGED <<poolVars, listVars>>
  ELSE Answered(fd, "read", answer, Fail("EACCES"))

\* alt_dev_null takes everything.
alt_dev_null_write(len) == Ok(len)

ALT_WRITE(fd, len, answer) ==
  IF Refuses(fd, "O_RDONLY")
  THEN ret' = Fail("EACCES") /\ UNCHANGED <<poolVars, listVars>>
  ELSE Answered(fd, "write",
         IF alt_fd_list[fd].dev = alt_dev_null THEN alt_dev_null_write(len) ELSE answer,
         Fail("EACCES"))

ALT_FSTAT(fd, answer) == Answered(fd, "fstat", answer, Ok(0))

ALT_LSEEK(fd, answer) == Answered(fd, "lseek", answer, Fail("ENOTSUP"))

\* The stat structure is not initialised: if the driver fails it says anything.
ALT_ISATTY(fd) ==
  \E isatty \in {0, 1} :
    IF fd < 0
    THEN ret' = [value |-> 0, errno |-> "EBADFD"] /\ UNCHANGED <<poolVars, listVars>>
    ELSE Answered(fd, "fstat", Ok(isatty), Ok(1))

\* Calls that only answer.
Answer(answer) == ret' = answer /\ UNCHANGED <<poolVars, listVars>>
ALT_UNLINK == Answer(Fail("ENOSYS"))
ALT_LINK == Answer(Fail("ENOSYS"))
ALT_RENAME == Answer(Fail("ENOSYS"))
ALT_FORK == Answer(Fail("ENOSYS"))
ALT_EXECVE == Answer(Fail("ENOSYS"))
ALT_WAIT == Answer(Fail("ECHILD"))
ALT_GETPID == Answer(Ok(0))

-----------------------------------------------------------------------------
(***************************************************************************)
(* A standard stream becomes a copy of a descriptor that is opened and     *)
(* released for the purpose; it stays as it was if that fails.             *)
(***************************************************************************)
alt_open_fd(std, file, mode, answer) ==
  LET opened == Opening(alt_fd_list, file, mode, {}, answer)
      old == opened.ret.value
  IN  /\ alt_max_fd' = opened.max
      /\ alt_fd_list' =
           IF old < 0 THEN opened.fds
           ELSE alt_release_fd([opened.fds EXCEPT ![std] = opened.fds[old]], old)
      /\ ret' = opened.ret
      /\ UNCHANGED <<held, listVars>>
=============================================================================
