----------------------------- MODULE NativeDecls -----------------------------
(***************************************************************************)
(* What src/lib/*.neon declares of the native functions that cnex has in   *)
(* its table: the kinds of the arguments, first to last (an INOUT argument *)
(* is an address, an OUT parameter takes none), the result, and the OUT    *)
(* values.                                                                 *)
(***************************************************************************)
EXTENDS Sequences, SequencesExt

FunctionOut(args, result, outs) == [args |-> args, results |-> <<result>> \o Reverse(outs)]
Function(args, result)  == FunctionOut(args, result, <<>>)
Procedure(args)         == [args |-> args, results |-> <<>>]
Functions(names, args, result) == [f \in names |-> Function(args, result)]

rangeArgs == <<"num", "bool", "num", "bool">>
twoNums   == <<"num", "num">>
threeNums == <<"num", "num", "num">>

GlobalDecls == [
    parseNumber |-> Function(<<"str">>, {"number:num", "error:str"}),
    print |-> Procedure(<<"obj">>),
    str   |-> Function(<<"num">>, {"str"}),
    Bytes__decodeUTF8 |-> Function(<<"bytes">>, {"string:str", "error:rec"})]

ArrayDecls == [
    array__append   |-> Procedure(<<"&arr", "cell">>),
    array__concat   |-> Function(<<"arr", "arr">>, {"arr"}),
    array__extend   |-> Procedure(<<"&arr", "arr">>),
    array__find     |-> Function(<<"arr", "cell">>, {"num"}),
    array__range    |-> Function(threeNums, {"arr"}),
    array__remove   |-> Procedure(<<"&arr", "num">>),
    array__resize   |-> Procedure(<<"&arr", "num">>),
    array__reversed |-> Function(<<"arr">>, {"arr"}),
    array__size     |-> Function(<<"arr">>, {"num"}),
    array__slice    |-> Function(<<"arr">> \o rangeArgs, {"arr"}),
    array__splice   |-> Function(<<"arr", "arr">> \o rangeArgs, {"arr"}),
    array__toBytes__number |-> Function(<<"arr">>, {"bytes"})]

BytesDecls == [
    bytes__append |-> Procedure(<<"&bytes", "bytes">>),
    bytes__concat |-> Function(<<"bytes", "bytes">>, {"bytes"}),
    bytes__index  |-> Function(<<"bytes", "num">>, {"num"}),
    bytes__range  |-> Function(<<"bytes">> \o rangeArgs, {"bytes"}),
    bytes__size   |-> Function(<<"bytes">>, {"num"}),
    bytes__splice |-> Function(<<"bytes", "bytes">> \o rangeArgs, {"bytes"}),
    bytes__store  |-> Procedure(<<"num", "&bytes", "num">>),
    bytes__toArray |-> Function(<<"bytes">>, {"arr"})]

DictionaryDecls == [
    dictionary__keys   |-> Function(<<"dict">>, {"arr"}),
    dictionary__remove |-> Procedure(<<"&dict", "str">>)]

ToStringDecls ==
    Functions({"array__toString__number", "array__toString__object", "array__toString__string"},
              <<"arr">>, {"str"})
    @@ Functions({"dictionary__toString__object", "dictionary__toString__string"},
                 <<"dict">>, {"str"})
    @@ [boolean__toString |-> Function(<<"bool">>, {"str"}),
        bytes__toString   |-> Function(<<"bytes">>, {"str"}),
        number__toString  |-> Function(<<"num">>, {"str"}),
        pointer__toString |-> Function(<<"cell">>, {"str"})]

StringDecls == [
    string__append     |-> Procedure(<<"&str", "str">>),
    string__concat     |-> Function(<<"str", "str">>, {"str"}),
    string__encodeUTF8 |-> Function(<<"str">>, {"bytes"}),
    string__index      |-> Function(<<"str", "num">>, {"str"}),
    string__length     |-> Function(<<"str">>, {"num"}),
    string__splice     |-> Function(<<"str", "str">> \o rangeArgs, {"str"}),
    string__substring  |-> Function(<<"str">> \o rangeArgs, {"str"}),
    string__toString   |-> Function(<<"str">>, {"str"})]

ObjectDecls == [
    object__getArray      |-> Function(<<"obj">>, {"arr"}),
    object__getBoolean    |-> Function(<<"obj">>, {"bool"}),
    object__getBytes      |-> Function(<<"obj">>, {"bytes"}),
    object__getDictionary |-> Function(<<"obj">>, {"dict"}),
    object__getNumber     |-> Function(<<"obj">>, {"num"}),
    object__getString     |-> Function(<<"obj">>, {"str"}),
    object__makeArray      |-> Function(<<"arr">>, {"obj"}),
    object__makeBoolean    |-> Function(<<"bool">>, {"obj"}),
    object__makeBytes      |-> Function(<<"bytes">>, {"obj"}),
    object__makeDictionary |-> Function(<<"dict">>, {"obj"}),
    object__makeNull       |-> Function(<<>>, {"obj"}),
    object__makeNumber     |-> Function(<<"num">>, {"obj"}),
    object__makeString     |-> Function(<<"str">>, {"obj"}),
    object__invokeMethod   |-> Function(<<"obj", "str", "arr">>, {"obj"}),
    object__isNull         |-> Function(<<"obj">>, {"bool"}),
    object__setProperty    |-> Procedure(<<"obj", "obj", "obj">>),
    object__subscript      |-> Function(<<"obj", "obj">>, {"obj"}),
    object__toString       |-> Function(<<"obj">>, {"str"})]

BinaryDecls ==
    Functions({"bitCount32", "bitCount64", "not32", "not64"}, <<"num">>, {"num"})
    @@ Functions({"and32", "and64", "or32", "or64", "xor32", "xor64",
                  "shiftLeft32", "shiftLeft64", "shiftRight32", "shiftRight64",
                  "shiftRightSigned32", "shiftRightSigned64"}, twoNums, {"num"})
    @@ Functions({"extract32", "extract64"}, threeNums, {"num"})
    @@ Functions({"get32", "get64"}, twoNums, {"bool"})
    @@ Functions({"replace32", "replace64"}, <<"num">> \o threeNums, {"num"})
    @@ Functions({"set32", "set64"}, <<"num", "num", "bool">>, {"num"})
    @@ Functions({"andBytes", "orBytes", "xorBytes"}, <<"bytes", "bytes">>, {"bytes"})
    @@ [bitCountBytes |-> Function(<<"bytes">>, {"num"}),
        notBytes      |-> Function(<<"bytes">>, {"bytes"})]

MathDecls ==
    Functions({"abs", "acos", "acosh", "asin", "asinh", "atan", "atanh", "cbrt", "ceil", "cos",
               "cosh", "erf", "erfc", "exp", "exp2", "expm1", "floor", "lgamma", "log", "log10",
               "log1p", "log2", "nearbyint", "sign", "sin", "sinh", "sqrt", "tan", "tanh",
               "tgamma", "trunc"}, <<"num">>, {"num"})
    @@ Functions({"atan2", "hypot", "intdiv", "ldexp", "max", "min", "round"}, twoNums, {"num"})
    @@ [frexp |-> FunctionOut(<<"num">>, {"num"}, <<{"num"}>>),
        odd   |-> Function(<<"num">>, {"bool"})]

StringModuleDecls ==
    Functions({"lower", "quoted", "upper"}, <<"str">>, {"str"})
    @@ [find |-> Function(<<"str", "str">>, {"notfound:none", "index:num"}),
        fromCodePoint |-> Function(<<"num">>, {"str"}),
        split      |-> Function(<<"str", "str">>, {"arr"}),
        splitLines |-> Function(<<"str">>, {"arr"}),
        toCodePoint    |-> Function(<<"str">>, {"num"}),
        trimCharacters |-> Function(<<"str", "str", "str">>, {"str"})]

StructDecls ==
    Functions({"packIEEE32BE", "packIEEE32LE", "packIEEE64BE", "packIEEE64LE"},
              <<"num">>, {"bytes"})
    @@ Functions({"unpackIEEE32BE", "unpackIEEE32LE", "unpackIEEE64BE", "unpackIEEE64LE"},
                 <<"bytes">>, {"num"})

DatetimeDecls == [gmtime |-> Function(<<"num">>, {"rec"}), timegm |-> Function(<<"rec">>, {"num"})]

IoDecls == [
    close     |-> Procedure(<<"obj">>),
    flush     |-> Procedure(<<"obj">>),
    open      |-> Function(<<"str", "num">>, {"file:obj", "error:str"}),
    readBytes |-> Function(<<"obj", "num">>, {"bytes"}),
    seek      |-> Procedure(<<"obj", "num", "num">>),
    tell      |-> Function(<<"obj">>, {"num"}),
    truncate  |-> Procedure(<<"obj">>),
    write     |-> Procedure(<<"obj", "str">>),
    writeBytes |-> Procedure(<<"obj", "bytes">>)]

TextioDecls == [
    close     |-> Procedure(<<"obj">>),
    open      |-> Function(<<"str", "num">>, {"file:obj", "error:str"}),
    readLine  |-> Function(<<"obj">>, {"line:str", "eof:none", "error:str"}),
    seekEnd   |-> Procedure(<<"obj">>),
    seekStart |-> Procedure(<<"obj">>),
    truncate  |-> Procedure(<<"obj">>),
    writeLine |-> Procedure(<<"obj", "str">>)]

FileDecls ==
    Functions({"copy", "copyOverwriteIfExists", "rename"},
              <<"str", "str">>, {"ok:none", "error:rec"})
    @@ Functions({"delete", "mkdir", "removeEmptyDirectory"}, <<"str">>, {"ok:none", "error:rec"})
    @@ Functions({"exists", "isDirectory"}, <<"str">>, {"bool"})
    @@ [Separator  |-> Function(<<>>, {"str"}),
        files      |-> Function(<<"str">>, {"arr"}),
        getInfo    |-> Function(<<"str">>, {"info:rec", "error:rec"}),
        readBytes  |-> Function(<<"str">>, {"data:bytes", "error:rec"}),
        readLines  |-> Function(<<"str">>, {"lines:arr", "error:rec"}),
        writeBytes |-> Function(<<"str", "bytes">>, {"ok:none", "error:rec"}),
        writeLines |-> Function(<<"str", "arr">>, {"ok:none", "error:rec"})]

MmapDecls == [
    close |-> Procedure(<<"obj">>),
    open  |-> Function(<<"str", "num">>, {"file:obj", "error:str"}),
    read  |-> Function(<<"obj", "num", "num">>, {"bytes"}),
    size  |-> Function(<<"obj">>, {"num"}),
    write |-> Procedure(<<"obj", "num", "bytes">>)]

NetDecls == [
    socket_tcpSocket |-> Function(<<>>, {"obj"}),
    socket_udpSocket |-> Function(<<>>, {"obj"}),
    socket_accept  |-> Function(<<"obj">>, {"obj"}),
    socket_bind    |-> Procedure(<<"obj", "str", "num">>),
    socket_close   |-> Procedure(<<"obj">>),
    socket_connect |-> Procedure(<<"obj", "str", "num">>),
    socket_listen  |-> Procedure(<<"obj", "num">>),
    socket_recv    |-> Function(<<"obj", "num">>, {"data:bytes", "eof:none", "error:str"}),
    socket_send    |-> Procedure(<<"obj", "bytes">>),
    socket_select  |-> Function(<<"&arr", "&arr", "&arr", "num">>, {"bool"})]

OsDecls == [
    getenv   |-> Function(<<"str">>, {"str"}),
    platform |-> Function(<<>>, {"num"}),
    kill     |-> Procedure(<<"obj">>),
    spawn    |-> Function(<<"str">>, {"process:obj", "error:num"}),
    system   |-> Function(<<"str">>, {"num"}),
    wait     |-> Function(<<"obj">>, {"num"})]

ProcessDecls == [call |-> FunctionOut(<<"str">>, {"num"}, <<{"bytes"}, {"bytes"}>>)]

RandomDecls == [bytes |-> Function(<<"num">>, {"bytes"}), uint32 |-> Function(<<>>, {"num"})]

RuntimeDecls ==
    Functions({"assertionsEnabled", "debugEnabled", "moduleIsMain"}, <<>>, {"bool"})
    @@ [createObject |-> Function(<<"str">>, {"obj"}),
        executorName |-> Function(<<>>, {"str"}),
        isModuleImported  |-> Function(<<"str">>, {"bool"}),
        setRecursionLimit |-> Procedure(<<"num">>)]

SqliteDecls == [
    open    |-> Function(<<"str">>, {"db:obj", "error:str"}),
    exec    |-> Function(<<"obj", "str", "dict">>, {"arr"}),
    execOne |-> FunctionOut(<<"obj", "str", "dict">>, {"bool"}, <<{"arr"}>>),
    execRaw |-> Function(<<"obj", "str">>, {"arr"}),
    close   |-> Procedure(<<"obj">>),
    cursorDeclare |-> Function(<<"obj", "str", "str">>, {"str"}),
    cursorOpen    |-> Procedure(<<"str">>),
    cursorFetch   |-> FunctionOut(<<"str">>, {"bool"}, <<{"arr"}>>),
    cursorClose   |-> Procedure(<<"str">>)]

SysDecls == [exit |-> Procedure(<<"num">>)]
TimeDecls == [now |-> Function(<<>>, {"num"}), sleep |-> Procedure(<<"num">>),
              tick |-> Function(<<>>, {"num"})]
DebuggerDecls == [breakpoint |-> Procedure(<<>>), log |-> Procedure(<<"str">>)]

PosixDecls ==
    Functions({"fork", "getegid", "geteuid", "getgid", "getpgrp", "getpid", "getppid", "getuid",
               "setsid"}, <<>>, {"num"})
    @@ Functions({"close", "dup", "fchdir", "fsync", "getpgid", "getsid", "setegid", "seteuid",
                  "setgid", "setuid", "sleep", "sysconf", "tcdrain", "tcgetpgrp", "umask"},
                 <<"num">>, {"num"})
    @@ Functions({"dup2", "fchmod", "fpathconf", "ftruncate", "getpriority", "kill", "setpgid",
                  "setregid", "setreuid", "tcflow", "tcflush", "tcsendbreak", "tcsetpgrp"},
                 twoNums, {"num"})
    @@ Functions({"fchown", "lockf", "lseek", "setpriority"}, threeNums, {"num"})
    @@ Functions({"chdir", "rmdir", "unlink"}, <<"str">>, {"num"})
    @@ Functions({"access", "chmod", "mkdir", "mkfifo", "pathconf", "truncate"},
                 <<"str", "num">>, {"num"})
    @@ Functions({"chown", "lchown", "open"}, <<"str", "num", "num">>, {"num"})
    @@ Functions({"link", "rename", "symlink"}, <<"str", "str">>, {"num"})
    @@ Functions({"strerror", "ttyname"}, <<"num">>, {"str"})
    @@ [exit   |-> Procedure(<<"num">>),
        execve |-> Function(<<"str", "arr", "arr">>, {"num"}),
        gethostname |-> FunctionOut(<<>>, {"num"}, <<{"str"}>>),
        getlogin |-> Function(<<>>, {"str"}),
        isatty   |-> Function(<<"num">>, {"bool"}),
        pipe     |-> FunctionOut(<<>>, {"num"}, <<{"num"}, {"num"}>>),
        pread    |-> FunctionOut(threeNums, {"num"}, <<{"bytes"}>>),
        pwrite   |-> Function(<<"num", "bytes", "num", "num">>, {"num"}),
        read     |-> FunctionOut(twoNums, {"num"}, <<{"bytes"}>>),
        readlink |-> FunctionOut(<<"str", "num">>, {"num"}, <<{"bytes"}>>),
        sync     |-> Procedure(<<>>),
        wait     |-> FunctionOut(<<>>, {"num"}, <<{"num"}>>),
        waitpid  |-> FunctionOut(twoNums, {"num"}, <<{"num"}>>),
        write    |-> Function(<<"num", "bytes">>, {"num"})]
=============================================================================
