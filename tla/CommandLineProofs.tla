-------------------------- MODULE CommandLineProofs --------------------------
(***************************************************************************)
(* What an exit code of zero is worth, for every set of command lines and  *)
(* every disk: the input that was verified is the one the line names, in   *)
(* whatever order, and every file named was there and was read.            *)
(*                                                                         *)
(* The invariant follows the command in three parts: what newFlags has made*)
(* of the arguments behind it (Split), how far verify has come for the     *)
(* commands that reach it (Line), and of each input whether it has been    *)
(* read and from where (Gathered).                                         *)
(***************************************************************************)
EXTENDS CommandLine, TLAPS

Verifying == {"verify", "receipt", "mat", "commitment", "context", "prior", "report"}

\* The steps after each step of verify.
PastContext == {"prior", "report"}
PastCommitment == {"context"} \cup PastContext
PastMAT == {"commitment"} \cup PastCommitment
PastReceipt == {"mat"} \cup PastMAT
PastAnchors == {"receipt"} \cup PastReceipt
Past(name) == IF name = "mat" THEN PastMAT
              ELSE IF name = "commitment" THEN PastCommitment ELSE PastContext

Over(steps) == pc \in steps \/ Succeeded("verify")

Codes == {0, 1, 2}

Members(line) == {line[k] : k \in 1..Len(line)}

Line ==
    /\ args \in CommandLines
    /\ pos \in Seq(Members(args)) /\ Len(pos) <= i - 2
    /\ \A name \in DOMAIN opts : opts[name] \in Members(args) \cup {Empty}
    /\ pc \in Verifying => args # <<>> /\ args[1] = <<"path", "verify">>
    /\ pc \in {"inspect", "digest", "vectors"} => args[1] = <<"path", pc>>
    /\ Over(PastAnchors) => args # <<>> /\ i > Len(args)

Split ==
    args # <<>> /\ WellFormed =>
        /\ i <= Len(args) + 1
        /\ i = 2 \/ ~IsOption(args[i - 1])
        /\ \A k \in 1..Len(pos) : pos[k] \in Free
        /\ \A name \in DOMAIN opts : opts[name] \in Stated(name)
        /\ \A k \in 2..(i - 1) : IsOption(args[k]) => args[k][2] \in DOMAIN opts

Anchored(held, file) ==
    held = AnchorsOf(AnchorList(file)) /\ held # <<>> /\ ListsAnchors(file)

ReceiptRead(x, file) ==
    file # Empty /\ Readable(file, "hex") /\ x \in Suppliable /\ x.receipt = Content(file)

\* The optional input is the file's, or missing when no file was given.
Supplied(x, name, file) ==
    IF file = Empty THEN x[name] = <<>>
    ELSE Readable(file, FormOf[name]) /\ x[name] = <<Content(file)>>

Gathered ==
    /\ Over(PastAnchors) => Anchored(anchors, opt("anchors")) /\ positional # Empty
    /\ pc \in {"main", "verify", "receipt"} => in = EmptyInput
    /\ Over(PastReceipt) => ReceiptRead(in, positional)
    /\ \A name \in {"mat", "commitment", "context"} :
          /\ pc \in PastReceipt \ Past(name) => in[name] = <<>>
          /\ Over(Past(name)) => Supplied(in, name, opt(name))
    /\ Over({"report"}) => \/ opt("prior") = Empty
                           \/ ReceiptParses(Content(opt("prior")), anchors[1])
    /\ Succeeded("verify") =>
          /\ \A c \in Reported(in, anchors[1]) : c.status # "failed"
          /\ \A line \in printed : line[1] = "PASS"

IInv == TypeOK /\ Line /\ Split /\ Gathered

------------------------------------------------------------------------------
(* Arguments.                                                               *)

LEMMA LineTyped ==
    ASSUME NEW line \in CommandLines
    PROVE  /\ Len(line) \in Nat
           /\ \A k \in 1..Len(line) : line[k] = <<line[k][1], line[k][2]>>
  BY CommandLineAssumption, Zenon

LEMMA Pairs ==
    ASSUME NEW line \in CommandLines, NEW a \in Members(line) \cup {Empty}
    PROVE  Len(a) = 2
  <1>1. CASE a = Empty
    BY <1>1 DEF Empty
  <1>2. CASE a \in Members(line)
    <2>1. PICK k \in 1..Len(line) : a = line[k]
      BY <1>2 DEF Members
    <2>2. a = <<a[1], a[2]>>
      BY <2>1, LineTyped
    <2> HIDE DEF Members
    <2> QED
      BY <2>2
  <1> QED
    BY <1>1, <1>2

\* The arguments and what was found in them decide which files are named.
LEMMA SameFiles ==
    ASSUME UNCHANGED <<args, i, pos, opts>>
    PROVE  /\ positional' = positional
           /\ \A name : opt(name)' = opt(name)
           /\ WellFormed' <=> WellFormed
           /\ Free' = Free
           /\ \A name : Stated(name)' = Stated(name)
           /\ Split' <=> Split
  <1>1. positional' = positional
    BY DEF positional
  <1>2. \A name : opt(name)' = opt(name)
    BY DEF opt
  <1>3. Free' = Free
    BY DEF Free, IsOption
  <1>4. \A name : Stated(name)' = Stated(name)
    BY DEF Stated
  <1>5. WellFormed' <=> WellFormed
    BY DEF WellFormed, Free, Stated, IsOption, Single
  <1>6. Split' <=> Split
    BY <1>3, <1>4, <1>5 DEF Split, IsOption
  <1> QED
    BY <1>1, <1>2, <1>3, <1>4, <1>5, <1>6

------------------------------------------------------------------------------
(* Endings.                                                                 *)

LEMMA CodeIsSome == \A code : <<code>> # <<>>
  OBVIOUS

\* A command that ends with an error, or that is none of verify, keeps all.
LEMMA Ends ==
    ASSUME IInv, pc # "exited", pc' = "exited",
           NEW code \in Codes, exit' = <<code>>, code = 0 => args[1] # <<"path", "verify">>,
           UNCHANGED <<args, i, pos, opts, anchors, in>>
    PROVE  IInv'
  <1>1. \A S : "exited" \notin S => ~Over(S)'
    BY DEF Over, Succeeded
  <1>2. ~Succeeded("verify")'
    BY DEF Succeeded
  <1>3. TypeOK'
    <2>1. exit' # <<>> /\ exit' \in {<<>>, <<0>>, <<1>>, <<2>>}
      BY CodeIsSome DEF Codes
    <2> QED
      BY <2>1 DEF IInv, TypeOK, Steps
  <1>4. Line'
    BY <1>1 DEF IInv, Line, Verifying, PastAnchors, PastReceipt, PastMAT, PastCommitment,
                PastContext
  <1>5. Split'
    BY SameFiles DEF IInv
  <1>6. Gathered'
    BY <1>1, <1>2 DEF Gathered, Past, PastAnchors, PastReceipt, PastMAT, PastCommitment,
                      PastContext
  <1> QED
    BY <1>3, <1>4, <1>5, <1>6 DEF IInv

LEMMA Fails ==
    ASSUME IInv, pc # "exited", Fail
    PROVE  IInv'
  <1>1. exit' = <<1>> /\ pc' = "exited" /\ UNCHANGED <<args, i, pos, opts, anchors, in, printed>>
    BY DEF Fail, Exit
  <1>2. 1 \in Codes
    BY DEF Codes
  <1> QED
    BY <1>1, <1>2, Ends

LEMMA NotYet ==
    ASSUME IInv, pc # "exited"
    PROVE  exit = <<>> /\ printed = {} /\ ~Succeeded("verify")
  <1>1. exit = <<>> /\ printed = {}
    BY DEF IInv, TypeOK
  <1> QED
    BY <1>1, CodeIsSome DEF Succeeded

------------------------------------------------------------------------------
(* The commands and the arguments of verify.                                *)

LEMMA Starts == Init => IInv
  <1> SUFFICES ASSUME Init
               PROVE  IInv
    OBVIOUS
  <1>1. exit = <<>> /\ pc = "main" /\ i = 2 /\ pos = <<>> /\ opts = <<>> /\ DOMAIN opts = {}
    BY DEF Init
  <1>2. ~Succeeded("verify")
    BY <1>1, CodeIsSome DEF Succeeded
  <1>3. \A S : "main" \notin S => ~Over(S)
    BY <1>1, <1>2 DEF Over
  <1>4. Len(args) \in Nat /\ args \in CommandLines
    BY LineTyped DEF Init
  <1>5. TypeOK
    BY <1>1, <1>4 DEF Init, TypeOK, Steps
  <1>6. Line
    BY <1>1, <1>3, <1>4 DEF Line, Verifying, PastAnchors, PastReceipt, PastMAT, PastCommitment,
                            PastContext
  <1>7. Split
    <2>1. args # <<>> /\ WellFormed => Len(args) >= 1
      BY <1>4 DEF WellFormed, Free, Single
    <2> QED
      BY <1>1, <1>4, <2>1 DEF Split
  <1>8. in = EmptyInput
    BY DEF Init
  <1>9. Gathered
    BY <1>8, <1>1, <1>2, <1>3 DEF Gathered, Past, PastAnchors, PastReceipt, PastMAT, PastCommitment,
                            PastContext
  <1> QED
    BY <1>5, <1>6, <1>7, <1>9 DEF IInv

LEMMA MainStep == ASSUME IInv, Main PROVE IInv'
  <1>1. pc = "main" /\ pc # "exited" /\ UNCHANGED <<args, i, pos, opts, anchors, in, printed>>
    BY DEF Main
  <1>2. exit = <<>> /\ printed = {}
    BY <1>1, NotYet
  <1>3. CASE args # <<>> /\ args[1] \in DOMAIN Commands
    <2>1. pc' = Commands[args[1]] /\ exit' = exit
      BY <1>3 DEF Main
    <2>2. PICK c \in {"verify", "inspect", "vectors", "digest"} : args[1] = <<"path", c>>
      BY <1>3 DEF Commands
    <2>3. pc' = c
      BY <2>1, <2>2 DEF Commands
    <2>4. ~Succeeded("verify")'
      BY <1>2, <2>1, CodeIsSome DEF Succeeded
    <2>5. \A S : c \notin S => ~Over(S)'
      BY <2>3, <2>4 DEF Over
    <2>6. TypeOK'
      BY <1>1, <1>2, <2>1, <2>3 DEF IInv, TypeOK, Steps
    <2>7. Line'
      BY <1>1, <2>2, <2>3, <2>5, <1>3
         DEF IInv, Line, Verifying, PastAnchors, PastReceipt, PastMAT, PastCommitment, PastContext
    <2>8. Split'
      BY <1>1, SameFiles DEF IInv
    <2>9. Gathered'
      BY <1>1, <2>3, <2>4, <2>5 DEF IInv, Gathered, Past, PastAnchors, PastReceipt, PastMAT,
                              PastCommitment, PastContext
    <2> QED
      BY <2>6, <2>7, <2>8, <2>9 DEF IInv
  <1>4. CASE args = <<>> \/ args[1] \notin DOMAIN Commands
    <2>1. pc' = "exited" /\ \E code \in Codes : exit' = <<code>>
      BY <1>4 DEF Main, Exit, Codes
    <2>2. exit' = <<0>> => args[1] # <<"path", "verify">>
      <3>1. CASE args = <<>>
        <4>1. exit' = <<2>>
          BY <3>1 DEF Main, Exit
        <4> QED
          BY <4>1
      <3>2. CASE args[1] \notin DOMAIN Commands
        BY <3>2 DEF Commands
      <3> QED
        BY <1>4, <3>1, <3>2
    <2> QED
      BY <1>1, <2>1, <2>2, Ends
  <1> QED
    BY <1>3, <1>4

\* A turn of newFlags leaves the step and the type of what it found.
LEMMA FlagsTyped == ASSUME IInv, newFlags PROVE TypeOK' /\ Line'
  <1>1. pc = "verify" /\ UNCHANGED <<args, pc, anchors, in, printed, exit>>
    BY DEF newFlags
  <1>2. /\ Len(args) \in Nat /\ i \in 2..Len(args)
        /\ pos \in Seq(Members(args)) /\ Len(pos) <= i - 2 /\ args \in CommandLines
        /\ \A name \in DOMAIN opts : opts[name] \in Members(args) \cup {Empty}
    BY LineTyped DEF IInv, Line, TypeOK, newFlags
  <1>3. args[i] \in Members(args) /\ (i < Len(args) => args[i + 1] \in Members(args))
    BY <1>2 DEF Members
  <1>4. /\ pos' \in Seq(Members(args)) /\ Len(pos') <= i' - 2
        /\ i' \in 2..(Len(args) + 2)
    <2>1. CASE IsOption(args[i])
      BY <1>2, <2>1 DEF newFlags
    <2>2. CASE ~IsOption(args[i])
      BY <1>2, <1>3, <2>2 DEF newFlags
    <2> QED
      BY <2>1, <2>2
  <1>5. \A name \in DOMAIN opts' : opts'[name] \in Members(args) \cup {Empty}
    <2>1. CASE IsOption(args[i])
      <3>1. opts' = Put(opts, args[i][2], IF i < Len(args) THEN args[i + 1] ELSE Empty)
        BY <2>1 DEF newFlags
      <3> QED
        BY <1>2, <1>3, <3>1 DEF Put
    <2>2. CASE ~IsOption(args[i])
      BY <1>2, <2>2 DEF newFlags
    <2> QED
      BY <2>1, <2>2
  <1>6. TypeOK'
    <2>1. \A name \in DOMAIN opts' : Len(opts'[name]) = 2
      BY <1>2, <1>5, Pairs
    <2>2. Len(pos') <= Len(args)
      BY <1>2, <1>4
    <2> QED
      BY <1>1, <1>4, <2>1, <2>2 DEF IInv, TypeOK
  <1>7. Line'
    <2>1. Members(args)' = Members(args)
      BY <1>1 DEF Members
    <2>2. ~Over(PastAnchors)'
      BY <1>1, NotYet DEF Over, Succeeded, PastAnchors, PastReceipt, PastMAT, PastCommitment,
                          PastContext
    <2>3. \A name \in DOMAIN opts' : opts'[name] \in (Members(args) \cup {Empty})'
      BY <1>5, <2>1 DEF Empty
    <2> QED
      BY <1>1, <1>4, <2>1, <2>2, <2>3 DEF IInv, Line, Verifying
  <1> QED
    BY <1>6, <1>7

\* On a well-formed line it passes over options with their values, and finds
\* the receipt elsewhere.
LEMMA FlagsSplit == ASSUME IInv, newFlags PROVE Split'
  <1>1. args' = args /\ Len(args) \in Nat /\ i \in 2..Len(args) /\ pos \in Seq(Members(args))
    BY LineTyped DEF IInv, Line, TypeOK, newFlags
  <1>2. Free' = Free /\ (WellFormed' <=> WellFormed) /\ \A name : Stated(name)' = Stated(name)
    BY <1>1 DEF Free, Stated, WellFormed, Single, IsOption
  <1> SUFFICES ASSUME args # <<>>, WellFormed
               PROVE  /\ i' <= Len(args) + 1
                      /\ i' = 2 \/ ~IsOption(args[i' - 1])
                      /\ \A k \in 1..Len(pos') : pos'[k] \in Free
                      /\ \A name \in DOMAIN opts' : opts'[name] \in Stated(name)
                      /\ \A k \in 2..(i' - 1) : IsOption(args[k]) => args[k][2] \in DOMAIN opts'
    BY <1>1, <1>2 DEF Split, IsOption
  <1>3. /\ i = 2 \/ ~IsOption(args[i - 1])
        /\ \A k \in 1..Len(pos) : pos[k] \in Free
        /\ \A name \in DOMAIN opts : opts[name] \in Stated(name)
        /\ \A k \in 2..(i - 1) : IsOption(args[k]) => args[k][2] \in DOMAIN opts
    BY DEF IInv, Split
  <1>4. CASE IsOption(args[i])
    <2>1. i # Len(args)
      BY <1>4 DEF WellFormed
    <2>2. i \in 2..(Len(args) - 1) /\ ~IsOption(args[i + 1])
      BY <1>1, <1>4, <2>1 DEF WellFormed
    <2>3. i' = i + 2 /\ pos' = pos /\ opts' = Put(opts, args[i][2], args[i + 1])
      BY <1>4, <1>1, <2>2 DEF newFlags
    <2>4. DOMAIN opts' = DOMAIN opts \cup {args[i][2]}
      BY <2>3 DEF Put
    <2>5. args[i] = <<"--", args[i][2]>>
      BY <1>1, <1>4, LineTyped DEF IInv, Line, IsOption
    <2>6. args[i + 1] \in Stated(args[i][2])
      BY <2>2, <2>5 DEF Stated
    <2>7. ASSUME NEW name \in DOMAIN opts'
          PROVE  opts'[name] \in Stated(name)
      BY <1>3, <2>3, <2>4, <2>6, <2>7 DEF Put
    <2>8. ASSUME NEW k \in 2..(i' - 1), IsOption(args[k])
          PROVE  args[k][2] \in DOMAIN opts'
      <3>1. k # i + 1
        BY <2>2, <2>8
      <3>2. k = i \/ k \in 2..(i - 1)
        BY <1>1, <2>3, <2>8, <3>1
      <3> QED
        BY <1>3, <2>4, <2>8, <3>2
    <2>9. i' - 1 = i + 1 /\ i' <= Len(args) + 1
      BY <1>1, <2>2, <2>3
    <2> QED
      BY <1>3, <2>2, <2>3, <2>7, <2>8, <2>9
  <1>5. CASE ~IsOption(args[i])
    <2>1. i' = i + 1 /\ pos' = Append(pos, args[i]) /\ opts' = opts
      BY <1>5 DEF newFlags
    <2>2. args[i] \in Free
      BY <1>1, <1>3, <1>5 DEF Free
    <2>3. ASSUME NEW k \in 1..Len(pos')
          PROVE  pos'[k] \in Free
      <3>1. k = Len(pos) + 1 \/ k \in 1..Len(pos)
        BY <1>1, <2>1
      <3> HIDE DEF Members
      <3> QED
        BY <1>1, <1>3, <2>1, <2>2, <3>1
    <2>4. i' - 1 = i /\ i' <= Len(args) + 1
      BY <1>1, <2>1
    <2>5. ASSUME NEW k \in 2..(i' - 1), IsOption(args[k])
          PROVE  args[k][2] \in DOMAIN opts'
      <3>1. k \in 2..(i - 1)
        BY <1>1, <1>5, <2>4, <2>5
      <3> QED
        BY <1>3, <2>1, <2>5, <3>1
    <2> QED
      BY <1>3, <1>5, <2>1, <2>3, <2>4, <2>5
  <1> QED
    BY <1>4, <1>5

LEMMA FlagsStep == ASSUME IInv, newFlags PROVE IInv'
  <1>1. pc = "verify" /\ pc' = pc /\ exit' = exit
    BY DEF newFlags
  <1>2. ~Succeeded("verify")'
    BY <1>1, NotYet, CodeIsSome DEF Succeeded
  <1>3. \A S : "verify" \notin S => ~Over(S)'
    BY <1>1, <1>2 DEF Over
  <1>4. Gathered'
    BY <1>1, <1>2, <1>3 DEF newFlags, IInv, Gathered, Past, PastAnchors, PastReceipt, PastMAT,
                            PastCommitment, PastContext
  <1> QED
    BY <1>4, FlagsTyped, FlagsSplit DEF IInv

------------------------------------------------------------------------------
(* The inputs of verify.                                                    *)

\* A step of verify that goes on: what is left to show is what it gathered.
LEMMA GoesOn ==
    ASSUME IInv, NEW there \in PastAnchors, NEW x, Proceed(there, x),
           pc \in Verifying, i > Len(args), Len(anchors') <= 1
    PROVE  /\ TypeOK' /\ Line' /\ Split'
           /\ in' = x /\ pc' = there
           /\ positional' = positional /\ \A name : opt(name)' = opt(name)
           /\ ~Succeeded("verify")' /\ ~Succeeded("verify")
           /\ \A S : Over(S)' <=> there \in S
           /\ \A S : Over(S) <=> pc \in S
  <1>1. pc' = there /\ in' = x /\ UNCHANGED <<args, i, pos, opts, printed, exit>>
    BY DEF Proceed
  <1>2. pc # "exited" /\ there # "exited" /\ there \in Steps /\ there \in Verifying
    BY DEF Verifying, Steps, PastAnchors, PastReceipt, PastMAT, PastCommitment, PastContext
  <1>3. exit = <<>> /\ printed = {} /\ ~Succeeded("verify")
    BY <1>2, NotYet
  <1>4. ~Succeeded("verify")'
    BY <1>1, <1>3, CodeIsSome DEF Succeeded
  <1>5. TypeOK'
    BY <1>1, <1>2, <1>3 DEF IInv, TypeOK
  <1>6. Members(args)' = Members(args) /\ Empty' = Empty
    BY <1>1 DEF Members, Empty
  <1>7. Line'
    <2>1. /\ args \in CommandLines /\ args # <<>> /\ args[1] = <<"path", "verify">>
          /\ pos \in Seq(Members(args)) /\ Len(pos) <= i - 2
          /\ \A name \in DOMAIN opts : opts[name] \in Members(args) \cup {Empty}
      BY DEF IInv, Line
    <2>2. there \notin {"inspect", "digest", "vectors"}
      BY DEF PastAnchors, PastReceipt, PastMAT, PastCommitment, PastContext
    <2> QED
      BY <1>1, <1>6, <2>1, <2>2 DEF Line
  <1>8. Split' /\ positional' = positional /\ \A name : opt(name)' = opt(name)
    BY <1>1, SameFiles DEF IInv
  <1>9. \A S : (Over(S)' <=> there \in S) /\ (Over(S) <=> pc \in S)
    BY <1>1, <1>3, <1>4 DEF Over
  <1> QED
    BY <1>1, <1>3, <1>4, <1>5, <1>7, <1>8, <1>9

LEMMA AnchorsStep == ASSUME IInv, loadAnchors PROVE IInv'
  <1>1. pc = "verify" /\ pc # "exited" /\ i > Len(args) /\ pc \in Verifying
    BY DEF loadAnchors, Verifying
  <1>2. CASE Fail
    BY <1>1, <1>2, Fails
  <1>3. CASE ~Fail
    <2> DEFINE held == AnchorsOf(AnchorList(opt("anchors")))
    <2>1. /\ positional # Empty /\ opt("anchors") # Empty
          /\ ListsAnchors(opt("anchors")) /\ held # <<>>
          /\ anchors' = held /\ Proceed("receipt", in)
      BY <1>3 DEF loadAnchors
    <2>2. opt("anchors") \in DOMAIN Disk
      BY <2>1 DEF ListsAnchors, Readable
    <2>3. held = <<held[1]>>
      BY <2>1, <2>2, CommandLineAssumption DEF Lists
    <2>4. "receipt" \in PastAnchors
      BY DEF PastAnchors
    <2>5. Len(anchors') <= 1
      <3>1. \A a : Len(<<a>>) <= 1
        OBVIOUS
      <3> QED
        BY <2>1, <2>3, <3>1, Zenon
    <2>6. /\ TypeOK' /\ Line' /\ Split' /\ in' = in /\ pc' = "receipt"
          /\ positional' = positional /\ \A name : opt(name)' = opt(name)
          /\ ~Succeeded("verify")' /\ \A S : Over(S)' <=> "receipt" \in S
      BY <1>1, <2>1, <2>4, <2>5, GoesOn
    <2>7. in = EmptyInput
      BY <1>1 DEF IInv, Gathered
    <2>8. Gathered'
      BY <2>1, <2>6, <2>7
         DEF Gathered, Anchored, EmptyInput, Past, PastReceipt, PastMAT, PastCommitment,
             PastContext
    <2> QED
      BY <2>6, <2>8 DEF IInv
  <1> QED
    BY <1>2, <1>3

LEMMA ContentOfForm ==
    ASSUME NEW file, NEW form, Readable(file, form)
    PROVE  Content(file) \in Contents(form)
  BY DEF Readable, Contents

LEMMA ReceiptStep == ASSUME IInv, ReadReceipt PROVE IInv'
  <1>1. pc = "receipt" /\ pc # "exited" /\ pc \in Verifying /\ pc \in PastAnchors
    BY DEF ReadReceipt, Verifying, PastAnchors
  <1>2. CASE Fail
    BY <1>1, <1>2, Fails
  <1>3. CASE ~Fail
    <2> DEFINE x == [in EXCEPT !.receipt = Content(positional)]
    <2>1. Readable(positional, "hex") /\ Proceed("mat", x) /\ anchors' = anchors
      BY <1>3 DEF ReadReceipt
    <2>2. /\ i > Len(args) /\ Len(anchors) <= 1 /\ in = EmptyInput
          /\ Anchored(anchors, opt("anchors")) /\ positional # Empty
      BY <1>1 DEF IInv, TypeOK, Line, Gathered, Over
    <2>3. "mat" \in PastAnchors
      BY DEF PastAnchors, PastReceipt
    <2> HIDE DEF x
    <2>4. /\ TypeOK' /\ Line' /\ Split' /\ in' = x /\ pc' = "mat"
          /\ positional' = positional /\ \A name : opt(name)' = opt(name)
          /\ ~Succeeded("verify")' /\ \A S : Over(S)' <=> "mat" \in S
      BY <1>1, <2>1, <2>2, <2>3, GoesOn
    <2>5. /\ x.receipt = Content(positional)
          /\ x.mat = <<>> /\ x.commitment = <<>> /\ x.context = <<>>
      BY <2>2 DEF x, EmptyInput
    <2>6. x \in Suppliable
      BY <2>1, <2>2, ContentOfForm DEF x, EmptyInput, Suppliable, Optionally
    <2>7. Gathered'
      <3>1. Anchored(anchors, opt("anchors"))' /\ (positional # Empty)'
        BY <2>1, <2>2, <2>4 DEF Anchored, Empty
      <3>2. ReceiptRead(in, positional)'
        BY <2>1, <2>2, <2>4, <2>5, <2>6 DEF ReceiptRead, Empty, Readable, Content
      <3>3. in.mat' = <<>> /\ in.commitment' = <<>> /\ in.context' = <<>>
        BY <2>4, <2>5
      <3> QED
        BY <2>4, <3>1, <3>2, <3>3
           DEF Gathered, Past, PastMAT, PastCommitment, PastContext
    <2> QED
      BY <2>4, <2>7 DEF IInv
  <1> QED
    BY <1>2, <1>3

\* What a step that supplies one optional input leaves to be shown of the others.
LEMMA OptionalRead ==
    ASSUME IInv, NEW name \in {"mat", "commitment", "context"}, pc = name,
           NEW there, there = Following[name], NEW x \in Suppliable, Proceed(there, x),
           anchors' = anchors, Supplied(x, name, opt(name)), x.receipt = in.receipt,
           \A other \in {"mat", "commitment", "context"} \ {name} : x[other] = in[other]
    PROVE  IInv'
  <1>1. /\ pc \in Verifying /\ pc \in PastAnchors /\ pc \in PastReceipt /\ there \in PastAnchors
        /\ there # "receipt" /\ there # "report" /\ there \notin {"main", "verify"}
    BY DEF Following, Verifying, PastAnchors, PastReceipt, PastMAT, PastCommitment, PastContext
  <1>2. /\ i > Len(args) /\ Len(anchors') <= 1
        /\ Anchored(anchors, opt("anchors")) /\ positional # Empty
        /\ ReceiptRead(in, positional)
    BY <1>1 DEF IInv, TypeOK, Line, Gathered, Over
  <1>3. /\ TypeOK' /\ Line' /\ Split' /\ in' = x /\ pc' = there
        /\ positional' = positional /\ \A n : opt(n)' = opt(n)
        /\ ~Succeeded("verify")' /\ \A S : Over(S)' <=> there \in S
        /\ \A S : Over(S) <=> pc \in S
    BY <1>1, <1>2, GoesOn
  <1>4. Anchored(anchors, opt("anchors"))' /\ (positional # Empty)'
    BY <1>2, <1>3 DEF Anchored, Empty
  <1>5. ReceiptRead(in, positional)'
    BY <1>2, <1>3 DEF ReceiptRead, Empty, Readable, Content
  <1>6. ASSUME NEW other \in {"mat", "commitment", "context"}
        PROVE  /\ pc' \in PastReceipt \ Past(other) => in[other]' = <<>>
               /\ Over(Past(other))' => Supplied(in, other, opt(other))'
    <2>1. CASE other = name
      <3>1. there \in Past(name)
        BY DEF Following, Past, PastMAT, PastCommitment, PastContext
      <3>2. Supplied(in, name, opt(name))'
        BY <1>3 DEF Supplied, Empty, Readable, Content
      <3> QED
        BY <1>3, <2>1, <3>1, <3>2
    <2>2. CASE other # name
      <3>1. /\ pc \in PastReceipt \ Past(other) => in[other] = <<>>
            /\ pc \in Past(other) => Supplied(in, other, opt(other))
        BY <1>3 DEF IInv, Gathered
      <3>2. /\ there \in Past(other) => pc \in Past(other)
            /\ there \in PastReceipt \ Past(other) => pc \in PastReceipt \ Past(other)
        BY <2>2 DEF Following, Past, PastReceipt, PastMAT, PastCommitment, PastContext
      <3>3. in[other]' = in[other]
        BY <1>3, <2>2
      <3>4. Supplied(in, other, opt(other)) => Supplied(in, other, opt(other))'
        BY <1>3, <3>3 DEF Supplied, Empty, Readable, Content
      <3> QED
        BY <1>3, <3>1, <3>2, <3>3, <3>4
    <2> QED
      BY <2>1, <2>2
  <1>7. Gathered'
    BY <1>1, <1>3, <1>4, <1>5, <1>6 DEF Gathered
  <1> QED
    BY <1>3, <1>7 DEF IInv

LEMMA OptionalStep ==
    ASSUME IInv, NEW name \in DOMAIN Following, ReadOptional(name)
    PROVE  IInv'
  <1>1. name \in {"mat", "commitment", "context"} /\ pc = name /\ pc # "exited"
    BY DEF Following, ReadOptional
  <1>2. /\ in \in Suppliable /\ in[name] = <<>>
    BY <1>1 DEF IInv, Gathered, Over, ReceiptRead, Past, PastReceipt, PastMAT, PastCommitment,
                PastContext
  <1>3. CASE Fail
    BY <1>1, <1>3, Fails
  <1>4. CASE ~Fail
    <2>1. CASE opt(name) = Empty
      <3>1. Proceed(Following[name], in) /\ anchors' = anchors
        BY <2>1 DEF ReadOptional
      <3>2. Supplied(in, name, opt(name))
        BY <1>2, <2>1 DEF Supplied
      <3> QED
        BY <1>1, <1>2, <3>1, <3>2, OptionalRead
    <2>2. CASE opt(name) # Empty
      <3> DEFINE x == [in EXCEPT ![name] = <<Content(opt(name))>>]
      <3>1. Readable(opt(name), FormOf[name]) /\ Proceed(Following[name], x) /\ anchors' = anchors
        BY <1>4, <2>2 DEF ReadOptional
      <3>2. /\ x[name] = <<Content(opt(name))>> /\ x.receipt = in.receipt
            /\ \A other \in {"mat", "commitment", "context"} \ {name} : x[other] = in[other]
        BY <1>1, <1>2 DEF Suppliable
      <3>3. Content(opt(name)) \in Contents(FormOf[name])
        BY <3>1, ContentOfForm
      <3>4. x \in Suppliable
        <4>1. CASE name = "mat"
          BY <1>2, <3>3, <4>1 DEF FormOf, Suppliable, Optionally
        <4>2. CASE name = "commitment"
          BY <1>2, <3>3, <4>2 DEF FormOf, Suppliable, Optionally
        <4>3. CASE name = "context"
          BY <1>2, <3>3, <4>3 DEF FormOf, Suppliable, Optionally
        <4> QED
          BY <1>1, <4>1, <4>2, <4>3
      <3>5. Supplied(x, name, opt(name))
        BY <2>2, <3>1, <3>2 DEF Supplied
      <3> HIDE DEF x
      <3> QED
        BY <1>1, <3>1, <3>2, <3>4, <3>5, OptionalRead
    <2> QED
      BY <2>1, <2>2
  <1> QED
    BY <1>3, <1>4

LEMMA PriorStep == ASSUME IInv, ReadPrior PROVE IInv'
  <1>1. /\ pc = "prior" /\ pc # "exited" /\ pc \in Verifying /\ pc \in PastAnchors
        /\ pc \in PastReceipt /\ \A name : pc \in Past(name)
    BY DEF ReadPrior, Verifying, Past, PastAnchors, PastReceipt, PastMAT, PastCommitment,
           PastContext
  <1>2. /\ i > Len(args) /\ Len(anchors) <= 1
        /\ Anchored(anchors, opt("anchors")) /\ positional # Empty
        /\ ReceiptRead(in, positional)
        /\ \A name \in {"mat", "commitment", "context"} : Supplied(in, name, opt(name))
    BY <1>1 DEF IInv, TypeOK, Line, Gathered, Over
  <1>3. CASE Fail
    BY <1>1, <1>3, Fails
  <1>4. ASSUME NEW x, Proceed("report", x), anchors' = anchors, ReceiptRead(x, positional),
               \A name \in {"mat", "commitment", "context"} : x[name] = in[name],
               opt("prior") = Empty \/ ReceiptParses(Content(opt("prior")), anchors[1])
        PROVE  IInv'
    <2>1. "report" \in PastAnchors
      BY DEF PastAnchors, PastReceipt, PastMAT, PastCommitment, PastContext
    <2>2. /\ TypeOK' /\ Line' /\ Split' /\ in' = x /\ pc' = "report"
          /\ positional' = positional /\ \A name : opt(name)' = opt(name)
          /\ ~Succeeded("verify")'
      BY <1>1, <1>2, <1>4, <2>1, GoesOn
    <2>3. Anchored(anchors, opt("anchors"))' /\ (positional # Empty)' /\ ReceiptRead(in, positional)'
      BY <1>2, <1>4, <2>2 DEF Anchored, ReceiptRead, Empty, Readable, Content
    <2>4. \A name \in {"mat", "commitment", "context"} : Supplied(in, name, opt(name))'
      BY <1>2, <1>4, <2>2 DEF Supplied, Empty, Readable, Content
    <2>5. (opt("prior") = Empty)' \/ ReceiptParses(Content(opt("prior")), anchors[1])'
      BY <1>4, <2>2 DEF Empty, Content
    <2>6. \A name : "report" \in Past(name)
      BY DEF Past, PastMAT, PastCommitment, PastContext
    <2>7. Gathered'
      BY <2>2, <2>3, <2>4, <2>5, <2>6 DEF Gathered
    <2> QED
      BY <2>2, <2>7 DEF IInv
  <1>5. CASE ~Fail /\ opt("prior") = Empty
    BY <1>2, <1>4, <1>5 DEF ReadPrior
  <1>6. CASE ~Fail /\ opt("prior") # Empty
    <2> DEFINE x == [in EXCEPT !.prior = <<Content(opt("prior")).payload>>]
    <2>1. /\ Readable(opt("prior"), "hex") /\ ReceiptParses(Content(opt("prior")), anchors[1])
          /\ Proceed("report", x) /\ anchors' = anchors
      BY <1>6 DEF ReadPrior
    <2>2. Content(opt("prior")) \in Contents("hex")
      BY <2>1, ContentOfForm
    <2>3. /\ in \in Suppliable /\ positional # Empty /\ Readable(positional, "hex")
          /\ in.receipt = Content(positional)
      BY <1>2 DEF ReceiptRead
    <2>4. /\ x \in Suppliable /\ x.receipt = in.receipt
          /\ x.mat = in.mat /\ x.commitment = in.commitment /\ x.context = in.context
      BY <2>2, <2>3 DEF Suppliable, Optionally
    <2>5. /\ ReceiptRead(x, positional)
          /\ \A name \in {"mat", "commitment", "context"} : x[name] = in[name]
      BY <2>3, <2>4 DEF ReceiptRead
    <2> HIDE DEF x
    <2> QED
      BY <1>4, <2>1, <2>5
  <1> QED
    BY <1>3, <1>5, <1>6

LEMMA ReportStep == ASSUME IInv, Report PROVE IInv'
  <1>1. /\ pc = "report" /\ pc \in PastAnchors /\ pc \in PastReceipt
        /\ \A name : pc \in Past(name)
    BY DEF Report, Past, PastAnchors, PastReceipt, PastMAT, PastCommitment, PastContext
  <1> DEFINE found == Reported(in, anchors[1])
  <1>2. /\ printed' = {<<Mark(c), c.name>> : c \in found}
        /\ pc' = "exited" /\ UNCHANGED <<args, i, pos, opts, anchors, in>>
        /\ exit' = <<IF \E c \in found : c.status = "failed" THEN 1 ELSE 0>>
    BY DEF Report, Exit
  <1>3. /\ i > Len(args) /\ Anchored(anchors, opt("anchors")) /\ positional # Empty
        /\ ReceiptRead(in, positional)
        /\ \A name \in {"mat", "commitment", "context"} : Supplied(in, name, opt(name))
        /\ opt("prior") = Empty \/ ReceiptParses(Content(opt("prior")), anchors[1])
        /\ args # <<>>
    BY <1>1 DEF IInv, Line, Gathered, Over
  <1>4. TypeOK'
    <2>1. exit' # <<>> /\ exit' \in {<<>>, <<0>>, <<1>>, <<2>>}
      BY <1>2, CodeIsSome
    <2> QED
      BY <1>2, <2>1 DEF IInv, TypeOK, Steps
  <1>5. Line'
    BY <1>2, <1>3 DEF IInv, Line, Verifying, Members, Empty
  <1>6. positional' = positional /\ (\A name : opt(name)' = opt(name)) /\ Split'
    BY <1>2, SameFiles DEF IInv
  <1>7. Succeeded("verify")' =>
            /\ \A c \in found : c.status # "failed"
            /\ \A line \in printed' : line[1] = "PASS"
    <2>1. <<1>> # <<0>>
      OBVIOUS
    <2>2. Succeeded("verify")' => \A c \in found : c.status # "failed"
      BY <1>2, <2>1 DEF Succeeded
    <2> QED
      BY <1>2, <2>2 DEF Mark
  <1>8. Gathered'
    <2>1. Anchored(anchors, opt("anchors"))' /\ (positional # Empty)' /\ ReceiptRead(in, positional)'
      BY <1>2, <1>3, <1>6 DEF Anchored, ReceiptRead, Empty, Readable, Content
    <2>2. \A name \in {"mat", "commitment", "context"} : Supplied(in, name, opt(name))'
      BY <1>2, <1>3, <1>6 DEF Supplied, Empty, Readable, Content
    <2>3. (opt("prior") = Empty)' \/ ReceiptParses(Content(opt("prior")), anchors[1])'
      BY <1>2, <1>3, <1>6 DEF Empty, Content
    <2>4. pc' \notin {"main", "verify", "receipt"} /\ pc' \notin PastReceipt
      BY <1>2 DEF PastReceipt, PastMAT, PastCommitment, PastContext
    <2> QED
      BY <1>2, <1>7, <2>1, <2>2, <2>3, <2>4 DEF Gathered
  <1> QED
    BY <1>4, <1>5, <1>6, <1>8 DEF IInv

------------------------------------------------------------------------------
(* The other commands.                                                      *)

LEMMA OthersStep == ASSUME IInv, Inspect \/ DigestContext \/ Vectors PROVE IInv'
  <1>1. pc \in {"inspect", "digest", "vectors"} /\ pc # "exited"
    BY DEF Inspect, DigestContext, Vectors
  <1>2. args[1] # <<"path", "verify">>
    BY <1>1 DEF IInv, Line
  <1>3. CASE Fail
    BY <1>1, <1>3, Fails
  <1>4. CASE ~Fail
    <2>1. pc' = "exited" /\ UNCHANGED <<args, i, pos, opts, anchors, in>>
      BY <1>4 DEF Inspect, DigestContext, Vectors, Exit
    <2>2. \E code \in Codes : exit' = <<code>>
      BY <1>4 DEF Inspect, DigestContext, Vectors, Exit, Codes
    <2> QED
      BY <1>1, <1>2, <2>1, <2>2, Ends
  <1> QED
    BY <1>3, <1>4

LEMMA Inductive == IInv /\ [Next]_vars => IInv'
  <1> SUFFICES ASSUME IInv, [Next]_vars
               PROVE  IInv'
    OBVIOUS
  <1>1. CASE UNCHANGED vars
    <2>1. UNCHANGED <<args, pc, i, pos, opts, anchors, in, printed, exit>>
      BY <1>1 DEF vars
    <2>2. /\ positional' = positional /\ (\A name : opt(name)' = opt(name))
          /\ (Split' <=> Split)
      BY <2>1, SameFiles
    <2>3. TypeOK'
      BY <2>1 DEF IInv, TypeOK
    <2>4. (Succeeded("verify")' <=> Succeeded("verify")) /\ \A S : Over(S)' <=> Over(S)
      BY <2>1 DEF Over, Succeeded
    <2>5. Line'
      BY <2>1, <2>4 DEF IInv, Line, Members, Empty
    <2>6. Gathered'
      BY <2>1, <2>2, <2>4
         DEF IInv, Gathered, Anchored, ReceiptRead, Supplied, Empty, Readable, Content
    <2> QED
      BY <2>2, <2>3, <2>5, <2>6 DEF IInv
  <1>2. CASE Next
    BY <1>2, MainStep, FlagsStep, AnchorsStep, ReceiptStep, OptionalStep, PriorStep,
       ReportStep, OthersStep DEF Next
  <1> QED
    BY <1>1, <1>2

LEMMA Invariance == Spec => []IInv
  BY Starts, Inductive, PTL DEF Spec

------------------------------------------------------------------------------
(* The theorems.                                                            *)

\* Every variable keeps its type, and the command has an exit code exactly when it
\* has ended.
THEOREM TypeCorrect == Spec => []TypeOK
  <1>1. IInv => TypeOK
    BY DEF IInv
  <1> QED
    BY <1>1, Invariance, PTL

\* Whatever the order of a well-formed line, the input a successful verification
\* was given is the one the line names (newFlags and cmdVerify, main.go).
THEOREM InputIsStated == Spec => []InputAsStated
  <1>1. IInv => InputAsStated
    <2> SUFFICES ASSUME IInv, Succeeded("verify"), WellFormed
                 PROVE  /\ \A a \in Free : in.receipt = Content(a)
                        /\ \A name \in DOMAIN Following :
                              in[name] = IF Stated(name) = {} THEN <<>>
                                         ELSE <<Content(CHOOSE a \in Stated(name) : TRUE)>>
      BY DEF InputAsStated
    <2>1. /\ args \in CommandLines /\ args # <<>> /\ i > Len(args)
          /\ pos \in Seq(Members(args)) /\ i \in 2..(Len(args) + 2) /\ Len(args) \in Nat
      BY LineTyped DEF IInv, Line, Over, TypeOK
    <2>2. /\ i <= Len(args) + 1 /\ \A k \in 1..Len(pos) : pos[k] \in Free
          /\ \A name \in DOMAIN opts : opts[name] \in Stated(name)
          /\ \A k \in 2..(i - 1) : IsOption(args[k]) => args[k][2] \in DOMAIN opts
      BY <2>1 DEF IInv, Split
    <2>3. /\ ReceiptRead(in, positional) /\ positional # Empty
          /\ \A name \in {"mat", "commitment", "context"} : Supplied(in, name, opt(name))
      BY DEF IInv, Gathered, Over
    <2>4. positional \in Free
      <3>1. pos # <<>>
        BY <2>3 DEF positional
      <3>2. 1 \in 1..Len(pos)
        BY <2>1, <3>1
      <3> QED
        BY <2>2, <3>1, <3>2 DEF positional
    <2>5. \A a \in Free : in.receipt = Content(a)
      BY <2>3, <2>4 DEF WellFormed, Single, ReceiptRead
    <2>6. ASSUME NEW name \in {"mat", "commitment", "context"}
          PROVE  in[name] = IF Stated(name) = {} THEN <<>>
                            ELSE <<Content(CHOOSE a \in Stated(name) : TRUE)>>
      <3>1. CASE name \in DOMAIN opts
        <4>1. opts[name] \in Stated(name) /\ opt(name) = opts[name]
          BY <2>2, <3>1 DEF opt
        <4>2. PICK k \in 2..(Len(args) - 1) :
                      args[k] = <<"--", name>> /\ opts[name] = args[k + 1]
          BY <4>1 DEF Stated
        <4>3. k \in 2..Len(args) /\ k + 1 \in 2..Len(args)
          BY <2>1, <4>2
        <4>4. opt(name) # Empty
          BY <4>1, <4>2, <4>3 DEF WellFormed
        <4>5. Single(Stated(name))
          BY <4>2 DEF WellFormed, IsOption
        <4>6. (CHOOSE a \in Stated(name) : TRUE) = opt(name)
          BY <4>1, <4>5 DEF Single
        <4> QED
          BY <2>3, <4>1, <4>4, <4>6 DEF Supplied
      <3>2. CASE name \notin DOMAIN opts
        <4>1. ASSUME NEW k \in 2..(Len(args) - 1), args[k] = <<"--", name>>
              PROVE  FALSE
          <5>1. k \in 2..(i - 1)
            BY <2>1, <4>1
          <5> QED
            BY <2>2, <3>2, <4>1, <5>1 DEF IsOption
        <4>2. Stated(name) = {}
          BY <4>1 DEF Stated
        <4>3. opt(name) = Empty
          BY <3>2 DEF opt
        <4> QED
          BY <2>3, <4>2, <4>3 DEF Supplied
      <3> QED
        BY <3>1, <3>2
    <2> QED
      BY <2>5, <2>6 DEF Following
  <1> QED
    BY <1>1, Invariance, PTL

\* A successful verification had every file it was given, and the receipt it
\* names, and the one before it, verify under the anchors given (cmdVerify).
THEOREM SuccessIsComplete == Spec => []SuccessRestsOnEveryFile
  <1>1. IInv => SuccessRestsOnEveryFile
    <2> SUFFICES ASSUME IInv, Succeeded("verify")
                 PROVE  /\ \A name \in DOMAIN opts \cap DOMAIN Following :
                              opts[name] # Empty =>
                                  in[name] # <<>> /\ Readable(opts[name], FormOf[name])
                        /\ opt("prior") # Empty =>
                              ReceiptParses(Content(opt("prior")), anchors[1])
                        /\ ReceiptParses(in.receipt, anchors[1])
                        /\ \A line \in printed : line[1] = "PASS"
      BY DEF SuccessRestsOnEveryFile
    <2>1. /\ Anchored(anchors, opt("anchors")) /\ ReceiptRead(in, positional)
          /\ \A name \in {"mat", "commitment", "context"} : Supplied(in, name, opt(name))
          /\ opt("prior") = Empty \/ ReceiptParses(Content(opt("prior")), anchors[1])
          /\ \A c \in Reported(in, anchors[1]) : c.status # "failed"
          /\ \A line \in printed : line[1] = "PASS"
      BY DEF IInv, Gathered, Over
    <2>2. ASSUME NEW name \in {"mat", "commitment", "context"}, name \in DOMAIN opts,
                 opts[name] # Empty
          PROVE  in[name] # <<>> /\ Readable(opts[name], FormOf[name])
      <3>1. opt(name) = opts[name]
        BY <2>2 DEF opt
      <3>2. Readable(opts[name], FormOf[name]) /\ in[name] = <<Content(opts[name])>>
        BY <2>1, <2>2, <3>1 DEF Supplied
      <3> QED
        BY <3>2, CodeIsSome
    <2>3. ReceiptParses(in.receipt, anchors[1])
      <3> DEFINE list == AnchorList(opt("anchors"))
      <3>1. list \in Lists /\ AnchorsOf(list) # <<>> /\ anchors = AnchorsOf(list)
        BY <2>1 DEF Anchored, Lists, ListsAnchors, Readable
      <3>2. in \in Suppliable
        BY <2>1 DEF ReceiptRead
      <3> HIDE DEF list
      <3>3. \/ ReceiptParses(in.receipt, AnchorsOf(list)[1])
            \/ \E c \in Reported(in, AnchorsOf(list)[1]) : c.status = "failed"
        BY <3>1, <3>2, CommandLineAssumption
      <3> QED
        BY <2>1, <3>1, <3>3
    <2> QED
      BY <2>1, <2>2, <2>3 DEF Following
  <1> QED
    BY <1>1, Invariance, PTL
=============================================================================
