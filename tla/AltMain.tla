-------------------------------- MODULE AltMain --------------------------------
(***************************************************************************)
(* From alt_main() to the end of the program (HAL/src/alt_main.c,          *)
(* alt_sys_init.c, alt_do_ctors.c, alt_do_dtors.c, alt_exit.c, alt_kill.c):*)
(* the drivers register, the standard streams are redirected, and then     *)
(* constructors, main() and destructors call what AltFile provides, on     *)
(* descriptors that are open or on the -1 of an open() that failed.        *)
(***************************************************************************)
EXTENDS AltFile

CONSTANT StdFile     \* ALT_STDIN, ALT_STDOUT, ALT_STDERR: the same path

VARIABLE phase

mainVars == <<fileVars, phase>>

MainInit == FileInit /\ phase = "sys_init"

Enters(next) == phase' = next

alt_sys_init ==
  /\ phase = "sys_init"
  /\ \/ \E dev \in Devices \ {alt_dev_list[i] : i \in DOMAIN alt_dev_list} :
          alt_dev_reg(dev) /\ UNCHANGED phase
     \/ \E fs \in FileSystems \ {alt_fs_list[i] : i \in DOMAIN alt_fs_list} :
          alt_fs_reg(fs) /\ UNCHANGED phase
     \/ Enters("stdout") /\ UNCHANGED fileVars

alt_io_redirect ==
  \E answer \in Answers :
    \/ /\ phase = "stdout" /\ Enters("stdin")
       /\ alt_open_fd(1, StdFile, "O_WRONLY", answer)
    \/ /\ phase = "stdin" /\ Enters("stderr")
       /\ alt_open_fd(0, StdFile, "O_RDONLY", answer)
    \/ /\ phase = "stderr" /\ Enters("_do_ctors")
       /\ alt_open_fd(2, StdFile, "O_WRONLY", answer)

\* exit() runs the destructors, _exit() spins for ever.
MainReturns ==
  \/ phase = "_do_ctors" /\ Enters("main") /\ UNCHANGED fileVars
  \/ /\ phase = "main" /\ Enters("_do_dtors")
     /\ \E answer \in Answers : ALT_CLOSE(1, answer)
  \/ phase = "_do_dtors" /\ Enters("_exit") /\ UNCHANGED fileVars

ALT_EXIT == phase = "_exit" /\ UNCHANGED mainVars

InProgramCode == phase \in {"_do_ctors", "main", "_do_dtors"}

ALT_KILL ==
  /\ InProgramCode
  /\ \/ Enters("_exit") /\ UNCHANGED fileVars
     \/ /\ UNCHANGED phase
        /\ \E answer \in {Ok(0), Fail("EINVAL"), Fail("ESRCH")} : Answer(answer)

Calls(fd, answer) ==
  \/ ALT_CLOSE(fd, answer)
  \/ \E req \in {"TIOCEXCL", "TIOCNXCL", "other"} : ALT_IOCTL(fd, req, answer)
  \/ ALT_READ(fd, answer)
  \/ \E len \in {0, 1} : ALT_WRITE(fd, len, answer)
  \/ ALT_FSTAT(fd, answer)
  \/ ALT_LSEEK(fd, answer)

\* Calls that do not depend on what a driver answers.
PoolCalls(fd) ==
  \/ \E cmd \in {"F_GETFL", "F_SETFL", "other"}, arg \in SUBSET StatusFlags :
       ALT_FCNTL(fd, cmd, arg)
  \/ ALT_ISATTY(fd)

Program ==
  /\ InProgramCode
  /\ UNCHANGED phase
  /\ \/ \E file \in Files, mode \in Modes, flags \in SUBSET StatusFlags, answer \in Answers :
          ALT_OPEN(file, mode, flags, answer)
     \/ \E file \in Files, opens \in Answers, stats \in Answers : ALT_STAT(file, opens, stats)
     \/ \E fd \in {-1} \cup (0 .. 2) \cup held :
          PoolCalls(fd) \/ \E answer \in Answers : Calls(fd, answer)
     \/ ALT_UNLINK \/ ALT_LINK \/ ALT_RENAME
     \/ ALT_FORK \/ ALT_EXECVE \/ ALT_WAIT \/ ALT_GETPID

MainNext == alt_sys_init \/ alt_io_redirect \/ MainReturns \/ ALT_EXIT \/ ALT_KILL \/ Program

MainSpec == MainInit /\ [][MainNext]_mainVars

-----------------------------------------------------------------------------
Flags == {"DEV", "EXCL", "O_APPEND", "O_NONBLOCK"}

FileTypeOK ==
  /\ alt_fd_list \in [Fds -> [dev : Devices \cup FileSystems \cup {NoDev},
                              mode : {"O_RDONLY", "O_WRONLY", "O_RDWR"},
                              flags : SUBSET Flags]]
  /\ alt_max_fd \in -1 .. ALT_MAX_FD - 1
  /\ alt_dev_list \in Seq(Devices)
  /\ alt_fs_list \in Seq(FileSystems)
  /\ held \subseteq 3 .. ALT_MAX_FD - 1
  /\ phase \in {"sys_init", "stdout", "stdin", "stderr",
                "_do_ctors", "main", "_do_dtors", "_exit"}

(***************************************************************************)
(* A descriptor above the standard streams is taken exactly while the      *)
(* program holds it: an open() that fails after it has claimed one, a      *)
(* stat(), a redirection and a close() whose driver fails all give it back *)
(* (alt_open.c:160, alt_close.c:88).                                       *)
(***************************************************************************)
NoDescriptorLeaks == \A fd \in Fds \ (0 .. 2) : Used(alt_fd_list, fd) <=> fd \in held

Holds(fd) == "EXCL" \in alt_fd_list[fd].flags
SameDevice(fd, other) == fd # other /\ alt_fd_list[fd].dev = alt_fd_list[other].dev

(***************************************************************************)
(* No two descriptors hold a device for exclusive access (alt_fd_lock.c:61,*)
(* alt_open.c:79).  alt_fd_lock() does not look at the highest descriptor, *)
(* so a device may be locked while that one is open on it; but then that   *)
(* one cannot lock it.                                                     *)
(***************************************************************************)
OneHolder == \A fd, other \in Fds : Holds(fd) /\ SameDevice(fd, other) => ~Holds(other)
=============================================================================
