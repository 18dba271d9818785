-------------------------- MODULE MCCompilerChannel --------------------------
(* Model-checking instances of CompilerChannel: two source directories, one *)
(* header and two capability records.                                       *)
EXTENDS CompilerChannel, TLC

(* Name, entry point, directory, headers scanned, headers read, valid_apis. *)
Table == {
    <<"start",    "startup",           "A", {},    {},    1>>,
    <<"pre",      "preprocess",        "A", {"h"}, {"h"}, 1>>,
    <<"preBlind", "preprocess",        "A", {},    {"h"}, 1>>,
    <<"plain",    "compile",           "A", {},    {},    1>>,
    <<"other",    "compile",           "B", {"h"}, {"h"}, 1>>,
    <<"ser",      "serialize",         "A", {"h"}, {"h"}, 1>>,
    <<"dis",      "disassemble",       "A", {},    {},    1>>,
    <<"cap",      "capture",           "A", {},    {},    1>>,
    <<"preC",     "preprocessCompute", "A", {"h"}, {"h"}, 2>>,
    <<"comC",     "compileCompute",    "A", {"h"}, {"h"}, 1>>}

Row(r) == CHOOSE t \in Table : t[1] = r
MCKind == [r \in Requests |-> Row(r)[2]]
MCRootOf == [r \in Requests |-> Row(r)[3]]
MCScanned == [r \in Requests |-> Row(r)[4]]
MCReads == [r \in Requests |-> Row(r)[5]]
MCApisOf == [r \in Requests |-> Row(r)[6]]

Mode(cacheOnly, useCache, eager, garbled) ==
    [cacheOnly |-> cacheOnly, useCache |-> useCache, writable |-> TRUE,
     eager |-> eager, garbled |-> garbled]

(* With a cache, with a read-only one, without one on an eager channel, and *)
(* cache-only on every kind of channel.                                     *)
AllModes ==
    LET caching == Mode(FALSE, TRUE, FALSE, FALSE)
    IN {caching, [caching EXCEPT !.writable = FALSE], Mode(FALSE, FALSE, TRUE, FALSE)}
       \cup {Mode(TRUE, c, e, FALSE) : c, e \in BOOLEAN}
GarbledMode == {Mode(FALSE, TRUE, FALSE, TRUE)}
=============================================================================
