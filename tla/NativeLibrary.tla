---------------------------- MODULE NativeLibrary ----------------------------
(***************************************************************************)
(* The predefined functions that exec/cnex writes by hand, in global.c and *)
(* in lib/*.c.  Where the operating systems have a file each in lib, the   *)
(* function has a platform.                                                *)
(* exec.cpp calls the functions of src/lib through generated thunks, which *)
(* take the arguments from the operand stack and put the results there; in *)
(* cnex each function does this itself, with top, peek, pop and push, and  *)
(* returns early where it raises.  A function is modelled by what it does  *)
(* to the stack: the set of its paths, a path being the sequence of stack  *)
(* operations made between its first line and its return.  Which path is   *)
(* taken depends on data, and is a free choice.  What a function computes, *)
(* and what it does with a pointer or an index that is wrong, is left out. *)
(*                                                                         *)
(* A cell is what it holds: "num", "bool", "str", "bytes", "arr", "dict",  *)
(* "rec" (a record is an array of its fields), "obj" (an Object or an      *)
(* opaque pointer), "cell" (any), "&" before what an address leads to, and *)
(* "tag:kind" for a choice value.                                          *)
(***************************************************************************)
EXTENDS Sequences, SequencesExt

Op(op, at, kind) == [op |-> op, at |-> at, kind |-> kind]

Nothing       == {<<>>}
Peek(i, kind) == {<<Op("read", i, kind)>>}
Drop(n)       == {[i \in 1..n |-> Op("pop", 0, "")]}
Push(kind)    == {<<Op("push", 0, kind)>>}
OneOf(kinds)  == UNION {Push(k) : k \in kinds}
Return        == {<<Op("return", 0, "")>>}
\* rtl_raise unwinds the stack at once and comes back to the function.
Raise         == {<<Op("raise", 0, "")>>}
\* exit, and the operating system's way: a null pointer is followed.
Exit          == {<<Op("exit", 0, "")>>}
Crash         == {<<Op("crash", 0, "")>>}

\* One thing after another, unless the first has returned already.
Ended(path) == path # <<>> /\ Last(path).op \in {"return", "exit", "crash"}
A ** B      == {IF Ended(p) THEN p ELSE p \o q : p \in A, q \in B}

May(A) == Nothing \cup A
Fail   == Raise ** Return

\* top(stack)->..., pop(stack) for each argument, the last one first.
Take(kinds) ==
    {FlattenSeq([i \in DOMAIN kinds |-> <<Op("read", 0, kinds[i]), Op("pop", 0, "")>>])}
\* The commonest shape: take all arguments, put one result.
Map(kinds, result) == Take(kinds) ** Push(result)
MapAll(names, kinds, result) == [f \in names |-> Map(kinds, result)]
\* Mutant: the first index before first_from_end.
TakeRange_swapped == Take(<<"bool", "num", "num", "bool">>)

\* The arguments (first, first_from_end, last, last_from_end) of a range.
TakeRange == Take(<<"bool", "num", "bool", "num">>)

GlobalFns == [
    parseNumber |-> Take(<<"str">>) ** OneOf({"number:num", "error:str"}),
    print       |-> Peek(0, "obj") ** Drop(1),
    str         |-> Map(<<"num">>, "str"),
    Bytes__decodeUTF8 |-> Peek(0, "bytes") ** Drop(1) ** OneOf({"string:str", "error:rec"})]

\* Up to and with array__size.
ArrayFns == [
    array__append   |-> Peek(0, "cell") ** Peek(1, "&arr") ** Drop(2),
    array__concat   |-> Map(<<"arr", "arr">>, "arr"),
    array__extend   |-> Take(<<"arr", "&arr">>),
    array__find     |-> Peek(0, "cell") ** Peek(1, "arr") ** May(Fail) ** Drop(2) ** Push("num"),
    array__range    |-> Take(<<"num", "num", "num">>) ** May(Fail) ** Push("arr"),
    array__remove   |-> Take(<<"num", "&arr">>) ** May(Fail),
    array__resize   |-> Take(<<"num", "&arr">>) ** May(Fail),
    array__reversed |-> Peek(0, "arr") ** Drop(1) ** Push("arr"),
    array__size     |-> Map(<<"arr">>, "num")]

ArrayPartFns == [
    array__slice  |-> TakeRange ** Peek(0, "arr") ** May(Fail) ** Drop(1) ** Push("arr"),
    array__splice |-> TakeRange ** Peek(0, "arr") ** Peek(1, "arr") ** Drop(2) ** Push("arr"),
    array__toBytes__number  |-> Take(<<"arr">>) ** May(Fail) ** Push("bytes")]

ToStringFns ==
    MapAll({"array__toString__number", "array__toString__string"}, <<"arr">>, "str")
    @@ [array__toString__object |-> Peek(0, "arr") ** Drop(1) ** Push("str"),
        boolean__toString |-> Map(<<"bool">>, "str")]

BytesFns == [
    bytes__append |-> Peek(0, "bytes") ** Peek(1, "&bytes") ** Drop(2),
    bytes__concat |-> Peek(0, "bytes") ** Peek(1, "bytes") ** Drop(2) ** Push("bytes"),
    bytes__index  |-> Take(<<"num">>) ** Peek(0, "bytes") ** May(Fail) ** Drop(1) ** Push("num"),
    bytes__range  |-> TakeRange ** Peek(0, "bytes") ** May(Fail) ** Drop(1) ** Push("bytes"),
    bytes__size   |-> Map(<<"bytes">>, "num")]

BytesPartFns == [
    bytes__splice |-> TakeRange ** Take(<<"bytes", "bytes">>) ** May(Fail) ** Push("bytes"),
    bytes__store  |-> Take(<<"num", "&bytes", "num">>),
    bytes__toArray  |-> Peek(0, "bytes") ** Drop(1) ** Push("arr"),
    bytes__toString |-> Map(<<"bytes">>, "str")]

DictionaryFns == [
    dictionary__keys   |-> Peek(0, "dict") ** Drop(1) ** Push("arr"),
    dictionary__remove |-> Take(<<"str", "&dict">>),
    dictionary__toString__object |-> Map(<<"dict">>, "str"),
    dictionary__toString__string |-> Map(<<"dict">>, "str"),
    number__toString   |-> Map(<<"num">>, "str")]

\* A copy is made of the cell in the object, before its type is looked at.
Unwrap(kind) == Peek(0, "obj") ** Drop(1) ** May(Fail) ** Push(kind)

ObjectConversionFns == [
    object__getArray      |-> Unwrap("arr"),
    object__getBoolean    |-> Unwrap("bool"),
    object__getBytes      |-> Unwrap("bytes"),
    object__getDictionary |-> Unwrap("dict"),
    object__getNumber     |-> Unwrap("num"),
    object__getString     |-> Unwrap("str"),
    object__makeArray      |-> Map(<<"arr">>, "obj"),
    object__makeBoolean    |-> Map(<<"bool">>, "obj"),
    object__makeBytes      |-> Map(<<"bytes">>, "obj"),
    object__makeDictionary |-> Map(<<"dict">>, "obj"),
    object__makeNull       |-> Push("obj"),
    object__makeNumber     |-> Map(<<"num">>, "obj"),
    object__makeString     |-> Map(<<"str">>, "obj")]

\* An Object may have a COM object in it (runtime_win32.c makes those), which
\* answers for itself: com_invokeMethod, com_setProperty and com_subscript.
ForObject(platform, A) == IF platform = "win32" THEN A ELSE {}
\* They raise and say that they failed, ...
com_fails  == Raise ** Fail
\* ... and raise where the answer is not convertible (ObjectFromVariant).
com_answer == May(Raise) ** Push("obj")

ObjectFns(platform) == [
    object__invokeMethod |->
        Take(<<"arr", "str", "obj">>)
          ** (Fail \cup Push("obj") \cup ForObject(platform, com_fails \cup com_answer)),
    object__isNull |-> Peek(0, "obj") ** Drop(1) ** Push("bool"),
    \* handleInvokeResult has raised when the call failed; its answer is not used.
    object__setProperty |->
        Take(<<"obj", "obj", "obj">>)
          ** (Fail \cup ForObject(platform, com_fails \cup May(Raise)))]

SubscriptFns(platform) == [
    object__subscript |->
        Take(<<"obj", "obj">>)
          ** (Fail \cup Push("obj") \cup ForObject(platform, com_fails \cup com_answer)),
    \* com_toString always has an answer.
    object__toString |-> Take(<<"obj">>) ** May(Fail) ** Push("str"),
    pointer__toString |-> Map(<<"cell">>, "str")]

StringFns == [
    string__append     |-> Take(<<"str", "&str">>),
    string__concat     |-> Peek(0, "str") ** Peek(1, "str") ** Drop(2) ** Push("str"),
    string__encodeUTF8 |-> Map(<<"str">>, "bytes"),
    string__toString   |-> Map(<<"str">>, "str"),
    string__index      |-> Take(<<"num", "str">>) ** May(Fail) ** Push("str"),
    string__length     |-> Map(<<"str">>, "num")]

StringPartFns == [
    string__splice     |-> TakeRange ** Take(<<"str", "str">>) ** May(Fail) ** Push("str"),
    string__substring  |-> TakeRange ** Take(<<"str">>) ** May(Fail) ** Push("str")]

-----------------------------------------------------------------------------
(* lib/binary.c *)
\* The range checks raise, and the caller returns.
Ranged(kinds, result) == Take(kinds) ** May(Fail) ** Push(result)

\* Functions of one, two and three numbers.
OfNumbers(one, two, three) ==
    [f \in one |-> Ranged(<<"num">>, "num")]
    @@ [f \in two |-> Ranged(<<"num", "num">>, "num")]
    @@ [f \in three |-> Ranged(<<"num", "num", "num">>, "num")]

Binary32Fns ==
    OfNumbers({"bitCount32", "not32"}, {"and32", "or32"}, {"extract32"})
    @@ [get32 |-> Ranged(<<"num", "num">>, "bool"),
        replace32 |-> Ranged(<<"num", "num", "num", "num">>, "num")]

BinaryShiftFns ==
    OfNumbers({}, {"shiftLeft32", "shiftRight32", "shiftRightSigned32", "xor32"}, {})
    @@ [set32 |-> Ranged(<<"bool", "num", "num">>, "num")]

Binary64Fns ==
    OfNumbers({"bitCount64", "not64"}, {"and64", "or64"}, {"extract64"})
    @@ [get64 |-> Ranged(<<"num", "num">>, "bool"),
        replace64 |-> Ranged(<<"num", "num", "num", "num">>, "num")]

BinaryShift64Fns ==
    OfNumbers({}, {"shiftLeft64", "shiftRight64", "shiftRightSigned64", "xor64"}, {})
    @@ [set64 |-> Ranged(<<"bool", "num", "num">>, "num")]

BinaryBytesFns ==
    [f \in {"andBytes", "orBytes", "xorBytes"} |-> Ranged(<<"bytes", "bytes">>, "bytes")]
    @@ [bitCountBytes |-> Map(<<"bytes">>, "num"),
        notBytes      |-> Peek(0, "bytes") ** Drop(1) ** Push("bytes")]

(* math.c *)
MathFirstFns ==
    MapAll({"abs", "acos", "acosh", "asin", "asinh", "atan", "atanh", "cbrt", "ceil", "cos",
            "cosh", "erf", "erfc", "exp", "exp2", "expm1", "floor"}, <<"num">>, "num")
    @@ MapAll({"atan2", "hypot"}, <<"num", "num">>, "num")
    @@ [frexp |-> Map(<<"num">>, "num") ** Push("num")]

MathSecondFns ==
    MapAll({"lgamma", "log", "log10", "log1p", "log2", "nearbyint", "sign", "sin", "sinh"},
           <<"num">>, "num")
    @@ MapAll({"intdiv", "max", "min", "round"}, <<"num", "num">>, "num")
    @@ [ldexp |-> Ranged(<<"num", "num">>, "num"),
        odd   |-> Ranged(<<"num">>, "bool")]

MathLastFns == MapAll({"sqrt", "tan", "tanh", "tgamma", "trunc"}, <<"num">>, "num")

(* string.c, struct.c, datetime.c *)
StringSearchFns == [
    find |-> Peek(0, "str") ** Peek(1, "str") ** Drop(2) ** OneOf({"index:num", "notfound:none"}),
    fromCodePoint |-> Ranged(<<"num">>, "str"),
    lower  |-> Peek(0, "str") ** Drop(1) ** Push("str"),
    quoted |-> Peek(0, "str") ** Drop(1) ** Push("str"),
    split  |-> Peek(0, "str") ** Peek(1, "str") ** Drop(2) ** Push("arr"),
    splitLines |-> Peek(0, "str") ** Drop(1) ** Push("arr")]

StringOtherFns == [
    toCodePoint |-> Peek(0, "str") ** May(Fail) ** Drop(1) ** May(Fail) ** Push("num"),
    trimCharacters |->
        Peek(0, "str") ** Peek(1, "str") ** Peek(2, "str") ** Drop(3) ** Push("str"),
    upper |-> Peek(0, "str") ** Drop(1) ** Push("str")]

StructFns ==
    MapAll({"packIEEE32BE", "packIEEE32LE", "packIEEE64BE", "packIEEE64LE"}, <<"num">>, "bytes")
    @@ [f \in {"unpackIEEE32BE", "unpackIEEE32LE", "unpackIEEE64BE", "unpackIEEE64LE"} |->
            Peek(0, "bytes") ** Drop(1) ** Push("num")]

DatetimeFns == [
    gmtime |-> Peek(0, "num") ** Drop(1) ** Push("rec"),
    timegm |-> Peek(0, "rec") ** Drop(1) ** Push("num")]

\* Mutant: no return after the check has raised.
OnFile_goes_on(kinds) == Take(kinds) ** May(Raise)

(* io.c, textio.c: check_file raises, and the caller returns. *)
OnFile(kinds) == Take(kinds) ** May(Fail)

IoFns == [
    close     |-> Peek(0, "obj") ** May(Fail) ** Drop(1),
    flush     |-> OnFile(<<"obj">>),
    open      |-> Take(<<"num", "str">>) ** OneOf({"file:obj", "error:str"}),
    readBytes |-> OnFile(<<"num", "obj">>) ** Push("str"),
    seek      |-> OnFile(<<"num", "num", "obj">>)]

IoOtherFns == [
    tell       |-> OnFile(<<"obj">>) ** Push("num"),
    truncate   |-> OnFile(<<"obj">>) ** May(Raise),
    write      |-> OnFile(<<"str", "obj">>),
    \* (It has a wrong name in the table, and cannot be called.)
    writeBytes |-> Peek(0, "bytes") ** Peek(1, "obj") ** May(Fail) ** Drop(2)]

TextioFns == [
    close     |-> Peek(0, "obj") ** May(Fail) ** Drop(1),
    open      |-> Take(<<"num", "str">>) ** OneOf({"file:obj", "error:str"}),
    readLine  |-> OnFile(<<"obj">>) ** OneOf({"line:str", "eof:none"}),
    seekEnd   |-> OnFile(<<"obj">>),
    seekStart |-> OnFile(<<"obj">>),
    truncate  |-> OnFile(<<"obj">>) ** May(Raise),
    writeLine |-> OnFile(<<"str", "obj">>)]

(* process_*.c, time_*.c, random*.c, sys.c, debugger.c *)
ProcessFns == [
    call |-> Take(<<"str">>) ** May(Fail) ** Push("num") ** Push("bytes") ** Push("bytes")]

TimeFns(platform) == [
    now   |-> Push("num"),
    sleep |-> Take(<<"num">>) ** (IF platform = "win32" THEN May(Fail) ELSE Nothing),
    tick  |-> Push("num")]

RandomFns == [bytes |-> Ranged(<<"num">>, "bytes"), uint32 |-> Push("num")]

SysFns == [exit |-> Take(<<"num">>) ** (Fail \cup Exit)]

DebuggerFns == [breakpoint |-> Nothing, log |-> Peek(0, "str") ** Drop(1)]

\* os.c, os_posix.c, os_win32.c: check_process raises and gives no process, which the
\* caller uses.
CheckProcess == May(Raise ** Crash)

OsFns == [getenv |-> Map(<<"str">>, "str"), system |-> Map(<<"str">>, "num")]

OsPosixFns == [
    kill     |-> Take(<<"obj">>) ** CheckProcess,
    platform |-> Push("num"),
    spawn    |-> Map(<<"str">>, "obj"),
    wait     |-> Take(<<"obj">>) ** CheckProcess ** Push("num")]

OsWin32Fns == [
    kill     |-> Take(<<"obj">>) ** CheckProcess,
    platform |-> Push("num"),
    spawn    |-> Ranged(<<"str">>, "obj"),
    wait     |-> Peek(0, "obj") ** CheckProcess ** Drop(1) ** Push("num")]

(* runtime*.c *)
RuntimeFns ==
    [f \in {"assertionsEnabled", "debugEnabled", "moduleIsMain"} |-> Push("bool")]
    @@ [executorName |-> Push("str"),
        isModuleImported |-> Peek(0, "str") ** Drop(1) ** Push("bool"),
        setRecursionLimit |-> Take(<<"num">>)]

CreateObject(platform) ==
    [createObject |-> IF platform = "win32" THEN Ranged(<<"str">>, "obj")
                                            ELSE Drop(1) ** Push("obj")]

(* file.c: the two that write look at their arguments until the end. *)
\* The result is pushed first on these, and the pops are of it and of one argument.
ErrorFirst(error) == Push(error) ** Drop(2) ** Return

FileFns == [
    readBytes  |-> Take(<<"str">>) ** OneOf({"data:bytes", "error:rec"}),
    readLines  |-> Take(<<"str">>) ** OneOf({"lines:arr", "error:rec"}),
    writeBytes |-> Peek(0, "bytes") ** Peek(1, "str") ** May(ErrorFirst("error:rec"))
                     ** Drop(2) ** Push("ok:none"),
    writeLines |-> Peek(0, "arr") ** Peek(1, "str") ** May(ErrorFirst("error:rec"))
                     ** Drop(2) ** Push("ok:none")]

FilePosixFns == [
    Separator |-> Push("str"),
    copy      |-> Take(<<"str", "str">>) ** OneOf({"ok:none", "error:rec"}),
    exists    |-> Map(<<"str">>, "bool"),
    files     |-> Map(<<"str">>, "arr")]

FilePosixOtherFns == [
    \* When a write fails the loop goes on, and the next read fails on the closed file.
    copyOverwriteIfExists |->
        Take(<<"str", "str">>)
          ** (OneOf({"ok:none", "error:rec"}) \cup Push("error:rec") ** Push("error:rec")),
    delete    |-> Take(<<"str">>) ** OneOf({"ok:none", "error:rec"})]

FilePosixDirFns == [
    getInfo |-> Take(<<"str">>) ** OneOf({"info:rec", "error:rec"}),
    isDirectory |-> Map(<<"str">>, "bool"),
    mkdir   |-> Take(<<"str">>) ** OneOf({"ok:none", "error:str"}),
    removeEmptyDirectory |-> Take(<<"str">>) ** OneOf({"ok:none", "error:str"}),
    rename  |-> Peek(0, "str") ** Peek(1, "str") ** May(ErrorFirst("error:str"))
                  ** Drop(2) ** Push("ok:none")]

FileWin32Fns ==
    [f \in {"copy", "copyOverwriteIfExists", "rename"} |->
        Take(<<"str", "str">>) ** OneOf({"ok:none", "error:str"})]
    @@ [f \in {"delete", "mkdir", "removeEmptyDirectory"} |->
        Take(<<"str">>) ** OneOf({"ok:none", "error:str"})]
    @@ MapAll({"exists", "isDirectory"}, <<"str">>, "bool")
    @@ [Separator |-> Push("str"),
        files     |-> Map(<<"str">>, "arr"),
        getInfo   |-> Peek(0, "str") ** Drop(1) ** OneOf({"info:rec", "error:rec"})]

(* mmap_posix.c, mmap_win32.c *)
MmapFns == [
    close |-> Peek(0, "obj") ** May(Raise ** Drop(1) ** Return) ** Drop(1),
    \* The mode is not looked at.
    open  |-> Drop(1) ** Take(<<"str">>) ** OneOf({"file:obj", "error:str"}),
    read  |-> Take(<<"num", "num", "obj">>) ** May(Raise ** Crash) ** Push("bytes")]

MmapOtherFns == [
    size  |-> OnFile(<<"obj">>) ** Push("num"),
    write |-> OnFile(<<"bytes", "num", "obj">>)]

(* net.c: check_socket raises, and most callers return. *)
NetFns == [
    socket_tcpSocket |-> Push("obj"),
    socket_udpSocket |-> Push("obj"),
    \* A cell that holds nothing where accept fails.
    socket_accept  |-> OnFile(<<"obj">>) ** OneOf({"obj", "blank"}),
    socket_bind    |-> Peek(0, "num") ** Peek(1, "str") ** Peek(2, "obj") ** May(Fail) ** Drop(3),
    socket_close   |-> OnFile(<<"obj">>),
    socket_connect |-> Peek(0, "num") ** Peek(1, "str") ** Peek(2, "obj") ** May(Fail) ** Drop(3)]

NetTransferFns == [
    socket_listen |-> OnFile(<<"num", "obj">>),
    socket_recv   |-> OnFile(<<"num", "obj">>) ** OneOf({"data:bytes", "eof:none", "error:str"}),
    socket_send   |-> Peek(0, "bytes") ** Peek(1, "obj") ** May(Fail) ** Drop(2)]

NetSelectFns == [
    socket_select |-> Take(<<"num", "&arr", "&arr", "&arr">>)
                        ** May(Raise ** Crash) ** May(Fail) ** Push("bool")]

(* sqlite.c *)
SqliteFns == [
    open    |-> Take(<<"str">>) ** OneOf({"db:obj", "error:str"}),
    exec    |-> Ranged(<<"dict", "str", "obj">>, "arr"),
    execOne |-> Ranged(<<"dict", "str", "obj">>, "bool") ** Push("arr")]

SqliteCursorFns == [
    execRaw |-> Ranged(<<"str", "obj">>, "arr"),
    close   |-> OnFile(<<"obj">>),
    cursorDeclare |-> Ranged(<<"str", "str", "obj">>, "str"),
    cursorOpen    |-> OnFile(<<"str">>),
    \* fetchCursor raises and answers FALSE, which is pushed all the same.
    cursorFetch   |-> OnFile(<<"str">>) ** May(Raise) ** Push("bool") ** Push("arr"),
    cursorClose   |-> OnFile(<<"str">>)]

(* posix.c, in the order of the file; the functions of HAVE_AT are not in the table. *)
PosixFromAccess ==
    MapAll({"access", "chmod"}, <<"num", "str">>, "num")
    @@ MapAll({"close", "dup", "fchdir"}, <<"num">>, "num")
    @@ MapAll({"dup2", "fchmod"}, <<"num", "num">>, "num")
    @@ [chdir  |-> Map(<<"str">>, "num"),
        chown  |-> Map(<<"num", "num", "str">>, "num"),
        exit   |-> Take(<<"num">>) ** Exit,
        execve |-> Map(<<"arr", "arr", "str">>, "num"),
        fchown |-> Map(<<"num", "num", "num">>, "num")]

PosixFromFork ==
    [f \in {"fork", "getegid", "geteuid", "getgid", "getpgrp", "getpid", "getppid", "getuid"} |->
        Push("num")]
    @@ MapAll({"fsync", "getpgid", "getsid"}, <<"num">>, "num")
    @@ MapAll({"fpathconf", "ftruncate", "getpriority", "kill"}, <<"num", "num">>, "num")
    @@ [gethostname |-> Push("str") ** Push("num"),
        getlogin |-> Push("str"),
        isatty   |-> Map(<<"num">>, "bool"),
        lchown   |-> Map(<<"num", "num", "str">>, "num"),
        link     |-> Map(<<"str", "str">>, "num")]

PosixFromLockf ==
    MapAll({"lockf", "lseek"}, <<"num", "num", "num">>, "num")
    @@ MapAll({"mkdir", "mkfifo", "pathconf"}, <<"num", "str">>, "num")
    @@ [open     |-> Map(<<"num", "num", "str">>, "num"),
        pipe     |-> (Push("num") ** Return) \cup (Push("num") ** Push("num") ** Push("num")),
        pread    |-> Map(<<"num", "num", "num">>, "num") ** Push("bytes"),
        pwrite   |-> Take(<<"num", "num">>) ** Peek(0, "bytes") ** Peek(1, "num") ** Drop(2)
                       ** Push("num"),
        read     |-> Map(<<"num", "num">>, "bytes") ** Push("num"),
        readlink |-> Map(<<"num", "str">>, "bytes") ** Push("num")]

PosixFromRename ==
    MapAll({"rename", "symlink"}, <<"str", "str">>, "num")
    @@ MapAll({"setegid", "seteuid", "setgid", "setuid", "sleep"}, <<"num">>, "num")
    @@ MapAll({"setpgid", "setregid", "setreuid"}, <<"num", "num">>, "num")
    @@ [rmdir    |-> Map(<<"str">>, "num"),
        setpriority |-> Map(<<"num", "num", "num">>, "num"),
        setsid   |-> Push("num"),
        strerror |-> Map(<<"num">>, "str"),
        sync     |-> Nothing]

PosixFromSysconf ==
    MapAll({"sysconf", "tcdrain", "tcgetpgrp", "umask"}, <<"num">>, "num")
    @@ MapAll({"tcflow", "tcflush", "tcsendbreak", "tcsetpgrp"}, <<"num", "num">>, "num")
    @@ [truncate |-> Map(<<"num", "str">>, "num"),
        ttyname  |-> Map(<<"num">>, "str"),
        unlink   |-> Map(<<"str">>, "num"),
        wait     |-> Push("num") ** Push("num"),
        waitpid  |-> Map(<<"num", "num">>, "num") ** Push("num"),
        write    |-> Peek(0, "bytes") ** Peek(1, "num") ** Drop(2) ** Push("num")]
=============================================================================
