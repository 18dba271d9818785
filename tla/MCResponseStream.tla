-------------------------- MODULE MCResponseStream --------------------------
(* Responses with two snippets, interleaved diagnostics, payload texts that *)
(* look like a final record, and counts of zero, one and two.               *)
EXTENDS ResponseStream

Final1 == Frame("shader", 0, {}, 1)
Err == Record(Frame("err", 0, {}, 0), <<Text, Final1>>)
Shader(n) == Record(Frame("shader", 0, {}, n), <<Text>>)
SnippetOf(id, mask) == Record(Frame("snip", id, mask, 0), <<Final1>>)
Family(tag, id, prog, n) == Record(Frame(tag, id, {prog}, n), [i \in 1..n |-> Text])
End(id, n) ==
    Record(Frame("end", id, {}, 0),
           <<Text, Empty, Number(7), Number(n)>> \o Repeated(n, <<Text, Number(7)>>))
PathList(tag, n) == Record(Frame(tag, 0, {}, n), [i \in 1..n |-> Text])
Program(id, p, n) ==
    <<Family("global", id, p, n), Family("local", id, p, 0), Family("builtin", id, p, 1)>>
Snippet(id, n) ==
    <<SnippetOf(id, {1, 2})>> \o Program(id, 2, n) \o Program(id, 1, 0) \o <<End(id, n)>>
Small(id) == <<SnippetOf(id, {1})>> \o Program(id, 1, 1) \o <<End(id, 0)>>

(* A diagnostic may come before any record.                                 *)
WithError(records) == {InsertAt(records, i, Err) : i \in DOMAIN records}

Preprocessed ==
    WithError(<<PathList("includes", 1)>> \o Snippet(0, 1) \o Small(1)
                \o <<PathList("includes", 1), PathList("filepaths", 1), Shader(1)>>)
        \cup WithError(Small(1) \o <<Shader(0)>>)
        \cup {<<Shader(1)>>, <<PathList("includes", 2), PathList("filepaths", 2), Shader(1)>>}
Compiled ==
    WithError(<<Record(Frame("reflection", 0, {}, 0), <<>>),
                Record(Final1, <<Number(0), Text>>)>>)
Disassembled ==
    WithError(<<Record(Frame("disassembly", 0, {}, 1), <<Final1>>)>>)
        \cup {<<Record(Frame("disassembly", 0, {}, 0), <<Empty>>)>>}
KernelCompiled ==
    {<<Err, Err, Record(Frame("computeData", 0, {}, 1), <<Text>>)>>,
     <<Record(Frame("computeData", 0, {}, 0), <<Empty>>)>>}
ComputePreprocessed ==
    WithError(<<Record(Frame("computeGlobal", 0, {}, 1), <<Empty>>),
                Record(Frame("computeLocal", 0, {}, 0), <<>>),
                Record(Frame("kernel", 1, {}, 2), <<Text, Text, Final1, Empty>>),
                Record(Frame("kernel", 2, {}, 0), <<>>),
                Record(Frame("requirements", 0, {}, 0),
                       <<Number(3), Number(1), Text, Number(1)>>),
                Record(Frame("endKernels", 0, {}, 1),
                       <<Text, Final1, Number(0), Number(0), Number(0)>>)>>)

AllResponses ==
    [preprocess |-> Preprocessed, compile |-> Compiled, disassemble |-> Disassembled,
     kernel |-> KernelCompiled, compute |-> ComputePreprocessed]
OneFrame ==
    {Text, Empty, Number(0), Number(-1), Number(9), Final1, Frame("unknown", 0, {}, 0),
     Frame("snip", 1, {1}, 0), Frame("end", 1, {}, 0), Frame("includes", 0, {}, 2),
     Frame("includes", 0, {}, -1), Frame("err", 0, {}, 0), Frame("kernel", 1, {}, 0),
     Frame("computeData", 0, {}, 1)}
        \cup {Frame(t, id, {p}, 0) : t \in ToSet(Families), id \in 0..1, p \in 1..2}
StrayFrames ==
    {<<>>} \cup {<<f>> : f \in OneFrame}
        \cup {OnWire(<<End(id, 0), Shader(1)>>) : id \in 0..1}
=============================================================================
