---------------------------- MODULE Descriptors ----------------------------
(***************************************************************************)
(* kernel/fs/posix/stub_impl.cpp: files for the application.  A file is a  *)
(* module that the boot loader left in memory; the first descriptors are   *)
(* the console.                                                            *)
(*                                                                         *)
(* A path and the command line of a module are names.  What a call reads   *)
(* is the sequence of the addresses it copies from.  readv and writev make *)
(* one call of read or write for each vector.                              *)
(***************************************************************************)
EXTENDS Integers, Sequences

CONSTANTS FileDescriptors,  \* FIRST_FILE_DESCRIPTOR .. MAX_DESCRIPTORS - 1
          BootModules,      \* boot_info::current().modules
          MapSize,          \* the end of what phy_to_vrt can translate
          SsizeMax, IovMax,
          Paths, Counts, Seeks, VectorLists   \* what the application passes

ASSUME FileDescriptorsAssumption == FileDescriptors \subseteq Nat \ (0 .. 2)
ASSUME BootModulesAssumption ==
    \A i \in DOMAIN BootModules :
       /\ BootModules[i] \in [name : Paths, base : Nat, length : Nat]
       /\ BootModules[i].length <= SsizeMax
ASSUME CountsAssumption ==
    /\ SsizeMax \in Nat /\ IovMax \in Nat /\ MapSize \in Nat /\ Counts \subseteq Nat
    /\ Seeks \subseteq -SsizeMax .. SsizeMax
    /\ \A vectors \in VectorLists : \A i \in 1 .. Len(vectors) : vectors[i] \in [null : BOOLEAN, len : Nat]

VARIABLES descriptors,  \* m_descriptors
          io,           \* the readv or writev that runs
          answer        \* what the last call returned

file_vars == <<descriptors, io, answer>>

Closed == [open |-> FALSE, base |-> 0, size |-> 0, offset |-> 0]
NoIo == [op |-> "none"]
Fds == 0 .. 2 \cup FileDescriptors
is_console(fd) == fd \in 0 .. 2
is_file(fd) == fd \in FileDescriptors /\ descriptors[fd].open
Returned(call, fd, value) == [call |-> call, fd |-> fd, value |-> value, errno |-> "none"]
Failed(call, fd, errno) == [call |-> call, fd |-> fd, value |-> -1, errno |-> errno]

FilesInit == descriptors = [fd \in FileDescriptors |-> Closed] /\ io = NoIo /\ answer = Returned("none", 0, 0)

\* The first module whose command line is the path.
Matching(path) == {i \in DOMAIN BootModules : BootModules[i].name = path}
First(i, path) == i \in Matching(path) /\ \A j \in Matching(path) : i <= j
ClosedDescriptors == {fd \in FileDescriptors : ~descriptors[fd].open}
Lowest(fd) == fd \in ClosedDescriptors /\ \A other \in ClosedDescriptors : fd <= other

\* open; refused: the path is null or the flags ask for writing.
open(path, refused) ==
    /\ io = NoIo /\ UNCHANGED io
    /\ \/ refused /\ answer' = Failed("open", path, "EINVAL") /\ UNCHANGED descriptors
       \/ ~refused /\ Matching(path) = {} /\ answer' = Failed("open", path, "ENOENT") /\ UNCHANGED descriptors
       \/ \E i \in Matching(path) :
             /\ ~refused /\ First(i, path)
             /\ LET module == BootModules[i]
                IN  \/ module.base >= MapSize /\ answer' = Failed("open", path, "ENOMEM") /\ UNCHANGED descriptors
                    \/ /\ module.base < MapSize /\ ClosedDescriptors = {}
                       /\ answer' = Failed("open", path, "EMFILE") /\ UNCHANGED descriptors
                    \/ \E fd \in ClosedDescriptors :
                          /\ module.base < MapSize /\ Lowest(fd)
                          /\ descriptors' = [descriptors EXCEPT ![fd] =
                                [open |-> TRUE, base |-> module.base, size |-> module.length, offset |-> 0]]
                          /\ answer' = Returned("open", path, fd)

\* How much read gives of a file, and from where.
read_length(fd, count) ==
    LET remaining == descriptors[fd].size - descriptors[fd].offset IN IF count < remaining THEN count ELSE remaining

\* Faulty: the offset stays where it was.
advance_Stay(fd, length) == descriptors

advance(fd, length) == [descriptors EXCEPT ![fd] = [descriptors[fd] EXCEPT !.offset = @ + length]]
copied(fd, length) == [i \in 1 .. length |-> descriptors[fd].base + descriptors[fd].offset + i - 1]

read(fd, count) ==
    /\ io = NoIo /\ UNCHANGED io
    /\ \/ fd = 0 /\ answer' = Returned("read", fd, 0) /\ UNCHANGED descriptors
       \/ fd # 0 /\ ~is_file(fd) /\ answer' = Failed("read", fd, "EBADF") /\ UNCHANGED descriptors
       \/ /\ is_file(fd)
          /\ descriptors' = advance(fd, read_length(fd, count))
          /\ answer' = Returned("read", fd, read_length(fd, count))

write(fd, count) ==
    /\ io = NoIo /\ UNCHANGED <<io, descriptors>>
    /\ answer' = IF fd \in {1, 2} THEN Returned("write", fd, count) ELSE Failed("write", fd, "EBADF")

\* The error that validate_iovecs finds first, or none.
Total(vectors, n) == LET sum[i \in 0 .. n] == IF i = 0 THEN 0 ELSE sum[i - 1] + vectors[i].len IN sum[n]
validate_iovecs(vectors, count, no_array) ==
    LET null(i) == vectors[i].null /\ vectors[i].len # 0
        much(i) == Total(vectors, i) > SsizeMax
        wrong == {i \in DOMAIN vectors : null(i) \/ much(i)}
    IN  IF count < 0 \/ count > IovMax \/ (no_array /\ count # 0) THEN "EINVAL"
        ELSE IF wrong = {} THEN "none"
        ELSE IF null(CHOOSE i \in wrong : \A j \in wrong : i <= j) THEN "EFAULT" ELSE "EINVAL"

\* readv and writev: the vectors are checked, then they are read or written in turn.  The
\* count is that of the vectors or negative; no_array: the pointer to them is null.
iov_call(op, fd, vectors, count, no_array) ==
    /\ io = NoIo /\ UNCHANGED descriptors
    /\ \/ validate_iovecs(vectors, count, no_array) # "none"
          /\ answer' = Failed(op, fd, validate_iovecs(vectors, count, no_array)) /\ UNCHANGED io
       \/ /\ validate_iovecs(vectors, count, no_array) = "none" /\ UNCHANGED answer
          /\ io' = [op |-> op, fd |-> fd, vectors |-> vectors, at |-> 1, total |-> 0, data |-> <<>>,
                    start |-> IF is_file(fd) THEN descriptors[fd].offset ELSE 0]

iov_return(value, errno) ==
    /\ answer' = [call |-> io.op, fd |-> io.fd, value |-> value, errno |-> errno,
                  data |-> io.data, start |-> io.start, asked |-> Total(io.vectors, Len(io.vectors))]
    /\ io' = NoIo /\ UNCHANGED descriptors
iov_end ==
    /\ io # NoIo /\ io.at > Len(io.vectors)
    /\ iov_return(io.total, "none")
\* The first call that fails ends it.
iov_fail ==
    /\ io # NoIo /\ io.at <= Len(io.vectors)
    /\ IF io.op = "readv" THEN io.fd # 0 /\ ~is_file(io.fd) ELSE io.fd \notin {1, 2}
    /\ iov_return(IF io.total = 0 THEN -1 ELSE io.total, "EBADF")

\* One vector is read; one that is not filled is the last.
readv_step ==
    /\ io # NoIo /\ io.op = "readv" /\ io.at <= Len(io.vectors) /\ UNCHANGED answer
    /\ LET len == io.vectors[io.at].len
           length == IF io.fd = 0 THEN 0 ELSE read_length(io.fd, len)
       IN  /\ io.fd = 0 \/ is_file(io.fd)
           /\ descriptors' = IF io.fd = 0 THEN descriptors ELSE advance(io.fd, length)
           /\ io' = [io EXCEPT !.total = @ + length,
                               !.data = IF io.fd = 0 THEN @ ELSE @ \o copied(io.fd, length),
                               !.at = IF length # len THEN Len(io.vectors) + 1 ELSE @ + 1]
writev_step ==
    /\ io # NoIo /\ io.op = "writev" /\ io.at <= Len(io.vectors) /\ io.fd \in {1, 2}
    /\ io' = [io EXCEPT !.total = @ + io.vectors[io.at].len, !.at = @ + 1]
    /\ UNCHANGED <<descriptors, answer>>

\* off_t has the width of ssize_t; a sum past it wraps around.
wrap(n) == IF n > SsizeMax THEN n - 2 * (SsizeMax + 1) ELSE n
\* Faulty: a target behind the end is taken.
in_file_NoEnd(fd, target) == target >= 0

in_file(fd, target) == target >= 0 /\ target <= descriptors[fd].size
lseek(fd, offset, whence) ==
    /\ io = NoIo /\ UNCHANGED io
    /\ \/ /\ ~is_file(fd) /\ UNCHANGED descriptors
          /\ answer' = Failed("lseek", fd, IF is_console(fd) THEN "ESPIPE" ELSE "EBADF")
       \/ /\ is_file(fd)
          /\ LET from == IF whence = "SET" THEN 0
                         ELSE IF whence = "CUR" THEN descriptors[fd].offset ELSE descriptors[fd].size
                 target == wrap(offset + from)
             IN  \/ /\ whence \notin {"SET", "CUR", "END"} \/ ~in_file(fd, target)
                    /\ answer' = Failed("lseek", fd, "EINVAL") /\ UNCHANGED descriptors
                 \/ /\ whence \in {"SET", "CUR", "END"} /\ in_file(fd, target)
                    /\ answer' = Returned("lseek", fd, target)
                    /\ descriptors' = [descriptors EXCEPT ![fd] = [descriptors[fd] EXCEPT !.offset = target]]

close(fd) ==
    /\ io = NoIo /\ UNCHANGED io
    /\ \/ ~is_file(fd) /\ answer' = Failed("close", fd, "EBADF") /\ UNCHANGED descriptors
       \/ /\ is_file(fd) /\ answer' = Returned("close", fd, 0)
          /\ descriptors' = [descriptors EXCEPT ![fd] = Closed]

\* fstat; no_out: the pointer to the answer is null.
fstat(fd, no_out) ==
    /\ io = NoIo /\ UNCHANGED <<io, descriptors>>
    /\ answer' = IF no_out THEN Failed("fstat", fd, "EINVAL")
                 ELSE IF is_console(fd) THEN Returned("fstat", fd, 0)
                 ELSE IF is_file(fd) THEN Returned("fstat", fd, descriptors[fd].size)
                 ELSE Failed("fstat", fd, "EBADF")

Whences == {"SET", "CUR", "END", "other"}
FilesNext ==
    \/ \E path \in Paths, refused \in BOOLEAN : open(path, refused)
    \/ \E fd \in Fds : close(fd) \/ \E no_out \in BOOLEAN : fstat(fd, no_out)
    \/ \E fd \in Fds, count \in Counts : read(fd, count) \/ write(fd, count)
    \/ \E fd \in Fds, offset \in Seeks, whence \in Whences : lseek(fd, offset, whence)
    \/ \E fd \in Fds, vectors \in VectorLists, op \in {"readv", "writev"} :
          \E count \in {-1, Len(vectors)}, no_array \in BOOLEAN : iov_call(op, fd, vectors, count, no_array)
    \/ iov_end \/ iov_fail \/ readv_step \/ writev_step
FilesSpec == FilesInit /\ [][FilesNext]_file_vars
-----------------------------------------------------------------------------
\* An open descriptor is a whole boot module that the direct map reaches, and its offset
\* lies in the module: no read, after any opening, seeking and closing, leaves the module.
OffsetsInFile ==
    \A fd \in FileDescriptors : descriptors[fd].open =>
       /\ \E i \in DOMAIN BootModules : /\ descriptors[fd].base = BootModules[i].base
                                        /\ descriptors[fd].size = BootModules[i].length
                                        /\ BootModules[i].base < MapSize
       /\ descriptors[fd].offset \in 0 .. descriptors[fd].size

\* readv on a file gives what one read of all its vectors would give: the bytes from the
\* offset on, in order, without a gap, as many as were asked for or as are left.
VectorsAreOneRead ==
    answer.call = "readv" /\ answer.errno = "none" /\ answer.fd \in FileDescriptors /\ "data" \in DOMAIN answer
       /\ descriptors[answer.fd].open /\ answer.asked > 0
       =>
       LET file == descriptors[answer.fd]
           left == file.size - answer.start
       IN  /\ answer.value = IF answer.asked < left THEN answer.asked ELSE left
           /\ answer.data = [i \in 1 .. answer.value |-> file.base + answer.start + i - 1]

\* open answers for the first module of the name: with the lowest descriptor that was
\* closed, or with EMFILE only if none was, and with ENOENT only if no module has the name.
OpenAnswers ==
    answer' # answer /\ answer'.call = "open" =>
       LET path == answer'.fd
       IN  CASE answer'.errno = "ENOENT" -> Matching(path) = {}
             [] answer'.errno = "EMFILE" -> \A fd \in FileDescriptors : descriptors[fd].open
             [] answer'.errno = "none" ->
                  /\ answer'.value \in FileDescriptors /\ ~descriptors[answer'.value].open
                  /\ \A fd \in FileDescriptors : fd < answer'.value => descriptors[fd].open
                  /\ \A i \in Matching(path) :
                        (\A j \in Matching(path) : i <= j) =>
                           descriptors'[answer'.value].base = BootModules[i].base
             [] OTHER -> UNCHANGED descriptors

\* The calls answer as those of a file system whose files are the boot modules: open finds
\* the file and readv reads on where the last call ended (fs/posix/stub_impl.cpp).
FilesAnswer == [][VectorsAreOneRead' /\ OpenAnswers]_file_vars
=============================================================================
