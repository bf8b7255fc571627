----------------------------- MODULE CommandLine -----------------------------
(***************************************************************************)
(* The xap command (cmd/xap/main.go): its arguments are split into options *)
(* and positional arguments, the files they name are read one after the    *)
(* other, and one of four commands runs. The first error ends it.          *)
(*                                                                         *)
(* An argument is <<"--", name>> or <<"path", name>>. A file of Disk holds *)
(* an envelope in hex, a context or a list of anchors as JSON: it is <<>>  *)
(* when none of these can be read from it, or <<form, content>>. The       *)
(* verifier is seen through Reported, BuildAnchors through AnchorsOf: <<>> *)
(* when it refuses the list, or <<anchors>>. The command supplies neither  *)
(* a speculative receipt nor a replay record.                              *)
(***************************************************************************)
EXTENDS Checks

CONSTANTS CommandLines,      \* the sequences of arguments
          Disk,              \* function from arguments to files
          AnchorsOf(_),
          Reported(_, _)     \* the checks Verify reports for an input and anchors

VARIABLES args,      \* os.Args[1:]
          pc,        \* the command or the step of verify about to run
          i,         \* the argument newFlags is at
          pos, opts, \* what it has found
          anchors,   \* <<>> until loaded
          in,        \* the VerifyInput
          printed,   \* pairs <<mark, name>>
          exit       \* <<>> while running, then <<code>>

vars == <<args, pc, i, pos, opts, anchors, in, printed, exit>>

\* The map with the value written under the key.
Put(map, key, value) ==
    [k \in DOMAIN map \cup {key} |-> IF k = key THEN value ELSE map[k]]

Empty == <<"path", "">>
IsOption(a) == a[1] = "--"

opt(name) == IF name \in DOMAIN opts THEN opts[name] ELSE Empty
positional == IF pos = <<>> THEN Empty ELSE pos[1]

Readable(a, form) == a \in DOMAIN Disk /\ Disk[a] # <<>> /\ Disk[a][1] = form
Content(a) == Disk[a][2]

\* A context parses as a manifest too, one without anchors.
ListsAnchors(a) == Readable(a, "anchors") \/ Readable(a, "context")
AnchorList(a) == IF Readable(a, "anchors") THEN Content(a) ELSE <<>>

\* What the command may hand to the verifier: contents of files in their forms.
Contents(form) == {Content(a) : a \in {b \in DOMAIN Disk : Readable(b, form)}}
Optionally(S) == {<<>>} \cup {<<x>> : x \in S}
Suppliable ==
    [receipt : Contents("hex"), mat : Optionally(Contents("hex")),
     context : Optionally(Contents("context")),
     prior : Optionally({e.payload : e \in Contents("hex")}), confirmed : {<<>>},
     commitment : Optionally(Contents("hex")), replay : {<<>>}]
Lists == {AnchorList(a) : a \in {b \in DOMAIN Disk : ListsAnchors(b)}}

\* A command line is a list of arguments; BuildAnchors returns anchors or an error;
\* Verify fails a receipt that does not verify.
ASSUME CommandLineAssumption ==
    /\ \A line \in CommandLines :
          /\ Len(line) \in Nat
          /\ \A k \in 1..Len(line) : line[k] = <<line[k][1], line[k][2]>>
    /\ \A list \in Lists :
          \/ AnchorsOf(list) = <<>>
          \/ /\ AnchorsOf(list) = <<AnchorsOf(list)[1]>>
             /\ \A x \in Suppliable :
                   \/ ReceiptParses(x.receipt, AnchorsOf(list)[1])
                   \/ \E c \in Reported(x, AnchorsOf(list)[1]) : c.status = "failed"

EmptyInput == [receipt |-> <<>>, mat |-> <<>>, context |-> <<>>, prior |-> <<>>,
               confirmed |-> <<>>, commitment |-> <<>>, replay |-> <<>>]

Init ==
    /\ args \in CommandLines /\ pc = "main" /\ i = 2
    /\ pos = <<>> /\ opts = <<>> /\ anchors = <<>> /\ in = EmptyInput
    /\ printed = {} /\ exit = <<>>

Exit(code) == exit' = <<code>> /\ pc' = "exited"

Fail == Exit(1) /\ UNCHANGED <<args, i, pos, opts, anchors, in, printed>>

Commands == [c \in {<<"path", x>> : x \in {"verify", "inspect", "vectors", "digest"}} |-> c[2]]
Help == {<<"path", "help">>, <<"path", "-h">>, <<"--", "help">>}

Main ==
    /\ pc = "main"
    /\ IF args = <<>> THEN Exit(2)
       ELSE IF args[1] \in DOMAIN Commands THEN pc' = Commands[args[1]] /\ UNCHANGED exit
       ELSE IF args[1] \in Help THEN Exit(0)
       ELSE Exit(1)
    /\ UNCHANGED <<args, i, pos, opts, anchors, in, printed>>

------------------------------------------------------------------------------
(* verify.                                                                  *)

\* Mutant of newFlags: the value of an option is not passed over.
newFlagsRereading ==
    /\ pc = "verify" /\ i <= Len(args)
    /\ IF IsOption(args[i])
       THEN opts' = Put(opts, args[i][2], IF i < Len(args) THEN args[i + 1] ELSE Empty)
            /\ UNCHANGED pos
       ELSE pos' = Append(pos, args[i]) /\ UNCHANGED opts
    /\ i' = i + 1
    /\ UNCHANGED <<args, pc, anchors, in, printed, exit>>

\* One turn of newFlags. An option takes the next argument, whatever it is; the
\* last one written under a name counts.
newFlags ==
    /\ pc = "verify" /\ i <= Len(args)
    /\ IF IsOption(args[i])
       THEN /\ opts' = Put(opts, args[i][2], IF i < Len(args) THEN args[i + 1] ELSE Empty)
            /\ i' = i + 2 /\ UNCHANGED pos
       ELSE pos' = Append(pos, args[i]) /\ i' = i + 1 /\ UNCHANGED opts
    /\ UNCHANGED <<args, pc, anchors, in, printed, exit>>

\* The step here is done and in is x.
Proceed(there, x) == pc' = there /\ in' = x /\ UNCHANGED <<args, i, pos, opts, printed, exit>>

loadAnchors ==
    /\ pc = "verify" /\ i > Len(args)
    /\ IF \/ positional = Empty \/ opt("anchors") = Empty
          \/ ~ListsAnchors(opt("anchors")) \/ AnchorsOf(AnchorList(opt("anchors"))) = <<>>
       THEN Fail
       ELSE anchors' = AnchorsOf(AnchorList(opt("anchors"))) /\ Proceed("receipt", in)

\* Mutant of ReadReceipt: a missing return, the error is noted and verify goes on.
ReadReceiptOnward ==
    /\ pc = "receipt"
    /\ IF ~Readable(positional, "hex")
       THEN exit' = <<1>> /\ pc' = "mat" /\ UNCHANGED <<args, i, pos, opts, anchors, in, printed>>
       ELSE Proceed("mat", [in EXCEPT !.receipt = Content(positional)]) /\ UNCHANGED anchors

ReadReceipt ==
    /\ pc = "receipt"
    /\ IF ~Readable(positional, "hex") THEN Fail
       ELSE Proceed("mat", [in EXCEPT !.receipt = Content(positional)]) /\ UNCHANGED anchors

\* The optional inputs: the form each is read in, and the step after it.
FormOf == [mat |-> "hex", commitment |-> "hex", context |-> "context"]
Following == [mat |-> "commitment", commitment |-> "context", context |-> "prior"]

\* Mutant of ReadOptional: a file that cannot be read is as good as none.
ReadOptionalLeniently(name) ==
    /\ pc = name
    /\ Proceed(Following[name],
               IF Readable(opt(name), FormOf[name])
               THEN [in EXCEPT ![name] = <<Content(opt(name))>>] ELSE in)
    /\ UNCHANGED anchors

\* --mat, --commitment and --context.
ReadOptional(name) ==
    /\ pc = name
    /\ IF opt(name) = Empty THEN Proceed(Following[name], in) /\ UNCHANGED anchors
       ELSE IF ~Readable(opt(name), FormOf[name]) THEN Fail
       ELSE /\ Proceed(Following[name], [in EXCEPT ![name] = <<Content(opt(name))>>])
            /\ UNCHANGED anchors

\* The prior receipt is verified here; a bad one is an error and no check.
ReadPrior ==
    /\ pc = "prior"
    /\ IF opt("prior") = Empty THEN Proceed("report", in) /\ UNCHANGED anchors
       ELSE IF \/ ~Readable(opt("prior"), "hex")
               \/ ~ReceiptParses(Content(opt("prior")), anchors[1])
       THEN Fail
       ELSE /\ Proceed("report", [in EXCEPT !.prior = <<Content(opt("prior")).payload>>])
            /\ UNCHANGED anchors

\* c.Pass: everything but a failure.
Mark(c) == IF c.status = "failed" THEN "FAIL" ELSE "PASS"

Report ==
    /\ pc = "report"
    /\ LET checks == Reported(in, anchors[1]) IN
       /\ printed' = {<<Mark(c), c.name>> : c \in checks}
       /\ Exit(IF \E c \in checks : c.status = "failed" THEN 1 ELSE 0)
    /\ UNCHANGED <<args, i, pos, opts, anchors, in>>

------------------------------------------------------------------------------
(* The other commands.                                                      *)

\* UnverifiedPayload, then DecodeAny: the message is decoded, not verified.
DecodeAny(env) ==
    env.decodes /\ \E kind \in {"mat", "receipt", "commitment"} : Unmarshals(env, kind)

Inspect ==
    /\ pc = "inspect"
    /\ IF Len(args) > 1 /\ Readable(args[2], "hex") /\ DecodeAny(Content(args[2]))
       THEN /\ printed' = {<<"kind", Content(args[2]).kind>>} /\ Exit(0)
            /\ UNCHANGED <<args, i, pos, opts, anchors, in>>
       ELSE Fail

DigestContext ==
    /\ pc = "digest"
    /\ IF Len(args) > 1 /\ Readable(args[2], "context")
       THEN /\ printed' = {<<"digest", Digest(Content(args[2]))>>} /\ Exit(0)
            /\ UNCHANGED <<args, i, pos, opts, anchors, in>>
       ELSE Fail

\* RunAll refuses the corpus, or reports of some vectors that they failed.
Vectors ==
    /\ pc = "vectors"
    /\ \/ Fail
       \/ /\ Len(args) > 1 /\ args[2] = <<"path", "run">>
          /\ \E failed \in 0..2 : /\ printed' = {<<"failed", failed>>}
                                  /\ Exit(IF failed > 0 THEN 1 ELSE 0)
          /\ UNCHANGED <<args, i, pos, opts, anchors, in>>

Next ==
    \/ Main \/ newFlags \/ loadAnchors \/ ReadReceipt
    \/ \E name \in DOMAIN Following : ReadOptional(name)
    \/ ReadPrior \/ Report
    \/ Inspect \/ DigestContext \/ Vectors

Spec == Init /\ [][Next]_vars

------------------------------------------------------------------------------
(* Properties.                                                              *)

Steps == {"main", "verify", "inspect", "vectors", "digest", "receipt", "mat",
          "commitment", "context", "prior", "report", "exited"}

\* Every variable keeps its type; the command has an exit code exactly when it
\* has ended, and prints nothing before.
TypeOK ==
    /\ pc \in Steps
    /\ i \in 2..(Len(args) + 2)
    /\ Len(pos) <= Len(args) /\ \A name \in DOMAIN opts : Len(opts[name]) = 2
    /\ Len(anchors) <= 1
    /\ exit \in {<<>>, <<0>>, <<1>>, <<2>>}
    /\ (exit = <<>>) <=> (pc # "exited")
    /\ exit = <<>> => printed = {}

\* What the line says in whatever order it says it: a file for each option, and
\* the receipt.
Stated(name) ==
    {args[k + 1] : k \in {k \in 2..(Len(args) - 1) : args[k] = <<"--", name>>}}
Free == {args[k] : k \in {k \in 2..Len(args) : ~IsOption(args[k]) /\ (k = 2 \/ ~IsOption(args[k - 1]))}}
Single(S) == S # {} /\ \A a, b \in S : a = b
WellFormed ==
    /\ Single(Free)
    /\ \A k \in 2..Len(args) : args[k] # Empty
    /\ ~IsOption(args[Len(args)])
    /\ \A k \in 2..(Len(args) - 1) : IsOption(args[k]) =>
          ~IsOption(args[k + 1]) /\ Single(Stated(args[k][2]))

Succeeded(command) == exit = <<0>> /\ args[1] = <<"path", command>>

\* A verification that succeeds was of the receipt, the MAT, the commitment and
\* the context its command line names, whatever the order it names them in
\* (newFlags, against the "ordering constraints" of main.go:243). An empty name
\* is excepted: the code takes it for an input that was not given.
InputAsStated ==
    Succeeded("verify") /\ WellFormed =>
        /\ \A a \in Free : in.receipt = Content(a)
        /\ \A name \in DOMAIN Following :
              in[name] = IF Stated(name) = {} THEN <<>>
                         ELSE <<Content(CHOOSE a \in Stated(name) : TRUE)>>

\* A verification that succeeds had every file it was given: none of them was
\* missing, unreadable or of another form, the prior receipt verifies under the
\* anchors given, and no line it printed is a failure (cmdVerify).
SuccessRestsOnEveryFile ==
    Succeeded("verify") =>
        /\ \A name \in DOMAIN opts \cap DOMAIN Following :
              opts[name] # Empty => in[name] # <<>> /\ Readable(opts[name], FormOf[name])
        /\ opt("prior") # Empty => ReceiptParses(Content(opt("prior")), anchors[1])
        /\ ReceiptParses(in.receipt, anchors[1])
        /\ \A line \in printed : line[1] = "PASS"
=============================================================================
