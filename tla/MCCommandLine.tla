--------------------------- MODULE MCCommandLine ---------------------------
(***************************************************************************)
(* Command lines over the files of one directory: every line of verify of  *)
(* at most MaxArgs further arguments, and the short lines of the other     *)
(* commands. Some files are missing, forged, or not of the form expected.  *)
(***************************************************************************)
EXTENDS CommandLine, MCInputs, TLC

CONSTANT MaxArgs

Path(name) == <<"path", name>>
Option(name) == <<"--", name>>

Permit ==
    ReceiptOver(BaseMAT, BaseContext, CommitmentTo(BaseMAT), Read, SvcA, "permit", {},
                At(2000), At(2050), 50)

MCDisk ==
    Path("receipt") :> <<"hex", Sealed("ke", "receipt", Permit)>>
    @@ Path("forged") :> <<"hex", [Sealed("ke", "receipt", Permit) EXCEPT !.signature = <<"none">>]>>
    @@ Path("first") :> <<"hex", Sealed("ke", "receipt", Prior)>>
    @@ Path("mat.hex") :> <<"hex", Sealed("ki", "mat", BaseMAT)>>
    @@ Path("ctx.json") :> <<"context", BaseContext>>
    @@ Path("anchors.json") :> <<"anchors", <<"all">>>>
    @@ Path("bad.json") :> <<"anchors", <<"nobody", "nobody">>>>
    @@ Path("torn") :> <<>>

\* The list is "all" the anchors of the small world, empty, or refused.
MCAnchorsOf(list) ==
    IF list = <<"all">> THEN <<MCAnchors>> ELSE IF list = <<>> THEN <<<<>>>> ELSE <<>>

Status(name, status) == [name |-> name, status |-> status]

\* Some checks of Verify: one for each input the command can supply.
MCReported(x, held) ==
    IF ~ReceiptParses(x.receipt, held) THEN {Status("receipt_signature", "failed")}
    ELSE LET r == x.receipt.payload IN
         {Status("receipt_signature", "passed"),
          Status("chain_link", Judge(x.prior # <<>>, ChainLink(r, x.prior[1]))),
          Status("context_digest",
                 Judge(x.context # <<>>, r.context_digest = Digest(x.context[1])))}
         \cup (IF x.mat = <<>> THEN {}
               ELSE {Status("mat_signature", PassIf(MATParses(x.mat[1], held)))})
         \cup (IF x.commitment = <<>> THEN {}
               ELSE {Status("commitment_signature",
                            PassIf(CommitmentParses(x.commitment[1], held)))})

Options == {Option(n) : n \in {"anchors", "mat", "context", "prior", "commitment", "verbose"}}
Paths == DOMAIN MCDisk \cup {Path(""), Path("missing")}

Given == {<<o, p>> : o \in Options, p \in Paths}
Anchored == {<<Option("anchors"), p>> : p \in {Path("anchors.json"), Path("bad.json"), Path("ctx.json")}}
Arguments == Options \cup Paths

\* The receipt comes first, in the middle or last.
Arrangements(a, b, c) == {a \o b \o c, c \o b \o a, b \o a \o c, a \o c \o b}

VerifyLines ==
    {<<Path("verify")>> \o s : s \in UNION {[1..n -> Arguments] : n \in 0..MaxArgs}}
    \cup {<<Path("verify")>> \o s :
             s \in UNION {Arrangements(a, <<p>>, g) : a \in Anchored, p \in Paths, g \in Given}}
    \cup {<<Path("verify")>> \o s :
             s \in UNION {Arrangements(<<Option("anchors"), Path("anchors.json")>> \o g, <<p>>, h) :
                          p \in {Path("receipt"), Path("first")},
                          g \in {<<o, f>> : o \in Options,
                                           f \in {Path("first"), Path("mat.hex"), Path("ctx.json")}},
                          h \in Given}}

MCCommandLines ==
    VerifyLines
    \cup {<<>>} \cup {<<a>> : a \in {Path("help"), Path("-h"), Option("help"), Option("verify")}}
    \cup {<<Path(c)>> : c \in {"inspect", "digest", "vectors"}}
    \cup {<<Path(c), p>> : c \in {"inspect", "digest"}, p \in Paths}
    \cup {<<Path("vectors"), p>> : p \in {Path("run"), Path("list")}}
=============================================================================
