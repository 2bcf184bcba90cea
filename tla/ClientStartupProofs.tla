------------------------ MODULE ClientStartupProofs ------------------------
(***************************************************************************)
(* Machine-checked proofs about ClientStartup: however many clients start  *)
(* at once on however many shared directories.                             *)
(***************************************************************************)
EXTENDS ClientStartup, TLAPS

(***************************************************************************)
(* The inductive invariant.  The arguments still to be parsed are those of *)
(* a command line, from which the path of the configuration comes.         *)
(***************************************************************************)
ArgsLeft == \A c \in Client : PathsNamed(argv[c])

(* A probe is written only into a directory that can be used. *)
ProbedUsable == \A c \in Client : pc[c] = "probed" => PathOf(c) \in usable

StartupInv ==
  /\ TypeOK
  /\ argv \in [Client -> Seq(STRING)]
  /\ ArgsLeft
  /\ ProbedUsable
  /\ NoProbeLeft
  /\ StartupIndependent

(* StartupInit: it holds before any argument is parsed. *)
LEMMA StartupInit == Init => StartupInv
<1> SUFFICES ASSUME Init PROVE StartupInv
  OBVIOUS
<1>1. TypeOK
  BY StartupAssumption DEF Init, TypeOK, Phase
<1>2. argv \in [Client -> Seq(STRING)] /\ ArgsLeft /\ ProbedUsable
  BY StartupAssumption DEF Init, ArgsLeft, ProbedUsable
<1>3. NoProbeLeft /\ StartupIndependent
  BY StartupAssumption DEF Init, NoProbeLeft, StartupIndependent
<1> QED
  BY <1>1, <1>2, <1>3 DEF StartupInv

(* ArgsAfter: what is left after one argument, or two, is of that kind. *)
LEMMA ArgsAfter ==
  ASSUME NEW args \in Seq(STRING), PathsNamed(args), args # <<>>
  PROVE  /\ Tail(args) \in Seq(STRING) /\ PathsNamed(Tail(args))
         /\ Len(args) > 1 => /\ SubSeq(args, 3, Len(args)) \in Seq(STRING)
                             /\ PathsNamed(SubSeq(args, 3, Len(args)))
         /\ (Head(args) = "--config" /\ Len(args) > 1) => args[2] \in Path
<1>1. /\ Tail(args) \in Seq(STRING) /\ Len(Tail(args)) = Len(args) - 1
      /\ \A k \in 1 .. Len(Tail(args)) : Tail(args)[k] = args[k + 1]
  OBVIOUS
<1>2. ASSUME Len(args) > 1
      PROVE  /\ SubSeq(args, 3, Len(args)) \in Seq(STRING)
             /\ Len(SubSeq(args, 3, Len(args))) = Len(args) - 2
             /\ \A k \in 1 .. (Len(args) - 2) :
                  SubSeq(args, 3, Len(args))[k] = args[k + 2]
  <2> DEFINE rest == SubSeq(args, 3, Len(args))
  <2>1. rest = [k \in 1 .. (Len(args) - 2) |-> args[k + 2]]
    <3>1. \A k \in 1 .. (Len(args) - 2) : 3 + k - 1 = k + 2 /\ k + 2 \in 1 .. Len(args)
      BY <1>2
    <3> QED
      BY <1>2, <3>1
  <2>2. \A k \in 1 .. (Len(args) - 2) : args[k + 2] \in STRING
    BY <1>2
  <2>3. Len(args) - 2 \in Nat
    BY <1>2
  <2> HIDE DEF rest
  <2>4. /\ rest \in Seq(STRING) /\ Len(rest) = Len(args) - 2
        /\ \A k \in 1 .. (Len(args) - 2) : rest[k] = args[k + 2]
    BY <2>1, <2>2, <2>3
  <2> QED
    BY <2>4 DEF rest
<1>3. PathsNamed(Tail(args))
  BY <1>1 DEF PathsNamed
<1>4. Len(args) > 1 => PathsNamed(SubSeq(args, 3, Len(args)))
  <2> SUFFICES ASSUME Len(args) > 1,
                      NEW k \in 1 .. (Len(SubSeq(args, 3, Len(args))) - 1),
                      SubSeq(args, 3, Len(args))[k] = "--config"
               PROVE  SubSeq(args, 3, Len(args))[k + 1] \in Path
    BY DEF PathsNamed
  <2>1. /\ k \in 1 .. (Len(args) - 2) /\ k + 1 \in 1 .. (Len(args) - 2)
        /\ k + 2 \in 1 .. (Len(args) - 1) /\ (k + 1) + 2 = (k + 2) + 1
    BY <1>2
  <2>2. args[k + 2] = "--config"
    BY <1>2, <2>1
  <2>3. args[(k + 2) + 1] \in Path
    BY <2>1, <2>2 DEF PathsNamed
  <2> QED
    BY <1>2, <2>1, <2>3
<1>5. (Head(args) = "--config" /\ Len(args) > 1) => args[2] \in Path
  BY DEF PathsNamed
<1> QED
  BY <1>1, <1>2, <1>3, <1>4, <1>5

(***************************************************************************)
(* A step of one process changes nothing of the others' state, and the     *)
(* probes are the only thing they share.                                   *)
(***************************************************************************)
Frame(c) ==
  /\ \E a \in Seq(STRING) : argv' = [argv EXCEPT ![c] = a]
  /\ \E p \in Phase : pc' = [pc EXCEPT ![c] = p]
  /\ \E p \in Path : config' = [config EXCEPT ![c] = p]
  /\ \E n \in 1 .. 4 : at' = [at EXCEPT ![c] = n]
  /\ \E s \in {None, 0, 1, 2, 101, Interrupted} : exit' = [exit EXCEPT ![c] = s]
  /\ UNCHANGED env

(* What a step of c must leave true of c. *)
OwnOK(c) ==
  /\ PathsNamed(argv'[c])
  /\ pc'[c] = "probed" => PathOf(c)' \in usable
  /\ exit'[c] # None <=> pc'[c] = "exited"
  /\ pc'[c] \notin {"args", "exited"} =>
       /\ ConfigAt[config'[c]] # None
       /\ from_str_validated(ConfigAt[config'[c]]) = "Ok"
  /\ exit'[c] = 1 =>
       LET f == ConfigAt[config'[c]]
       IN  \/ f = None
           \/ from_str_validated(f) # "Ok"
           \/ ~check_release_only_rules(f)
           \/ \E k \in 1 .. 4 : f.paths[k] \notin usable
           \/ \E e \in io_errors' : e.client = c /\ e.call = "write"

ErrorIn == [client : Client, dir : usable, call : {"write", "remove"}]

(* And of the probes: one that is new is its own or from a failed write,   *)
(* and where it had one it keeps it, was killed, has removed it, or failed *)
(* to.                                                                     *)
ProbesOK(c) ==
  /\ probes' \subseteq usable
  /\ io_errors \subseteq io_errors' /\ io_errors' \subseteq ErrorIn
  /\ \A d \in probes' : \/ d \in probes
                        \/ /\ pc'[c] = "probed" /\ ConfigAt[config'[c]] # None
                           /\ PathOf(c)' = d
                        \/ \E e \in io_errors' : e.dir = d
  /\ (pc[c] = "probed" \/ exit[c] = Interrupted) =>
       \/ /\ pc'[c] = "probed" \/ exit'[c] = Interrupted
          /\ config'[c] = config[c] /\ at'[c] = at[c]
       \/ PathOf(c) \notin probes'
       \/ \E e \in io_errors' : e.dir = PathOf(c)

(* StepHolds: such a step keeps the invariant. *)
LEMMA StepHolds ==
  ASSUME StartupInv, NEW c \in Client, Frame(c), OwnOK(c), ProbesOK(c)
  PROVE  StartupInv'
<1>1. /\ argv \in [Client -> Seq(STRING)] /\ pc \in [Client -> Phase]
      /\ config \in [Client -> Path] /\ at \in [Client -> 1 .. 4]
      /\ exit \in [Client -> {None, 0, 1, 2, 101, Interrupted}]
  BY DEF StartupInv, TypeOK
<1>2. /\ argv' \in [Client -> Seq(STRING)] /\ pc' \in [Client -> Phase]
      /\ config' \in [Client -> Path] /\ at' \in [Client -> 1 .. 4]
      /\ exit' \in [Client -> {None, 0, 1, 2, 101, Interrupted}]
      /\ usable' = usable
  BY <1>1 DEF Frame, env
<1>3. ASSUME NEW b \in Client, b # c
      PROVE  /\ argv'[b] = argv[b] /\ pc'[b] = pc[b] /\ config'[b] = config[b]
             /\ at'[b] = at[b] /\ exit'[b] = exit[b]
  BY <1>1, <1>3 DEF Frame
<1>4. TypeOK'
  <2>1. ASSUME NEW b \in Client
        PROVE  /\ exit'[b] # None <=> pc'[b] = "exited"
               /\ pc'[b] \notin {"args", "exited"} =>
                    /\ ConfigAt[config'[b]] # None
                    /\ from_str_validated(ConfigAt[config'[b]]) = "Ok"
    <3>1. CASE b = c
      BY <3>1 DEF OwnOK
    <3>2. CASE b # c
      BY <1>3, <3>2 DEF StartupInv, TypeOK
    <3> QED
      BY <3>1, <3>2
  <2>2. /\ probes' \subseteq usable' /\ usable' \subseteq Dir
        /\ io_errors' \subseteq
             [client : Client, dir : usable', call : {"write", "remove"}]
    BY <1>2 DEF ProbesOK, ErrorIn, StartupInv, TypeOK
  <2> QED
    BY <1>2, <2>1, <2>2 DEF TypeOK
<1>5. ArgsLeft'
  BY <1>3 DEF StartupInv, ArgsLeft, OwnOK
<1>6. ProbedUsable'
  BY <1>2, <1>3 DEF StartupInv, ProbedUsable, OwnOK, PathOf
<1>7. NoProbeLeft'
  <2> SUFFICES ASSUME NEW d \in probes', \A e \in io_errors' : e.dir # d
               PROVE  \E b \in Client :
                        /\ pc'[b] = "probed" \/ exit'[b] = Interrupted
                        /\ ConfigAt[config'[b]] # None
                        /\ ConfigAt[config'[b]].paths[at'[b]] = d
    BY DEF NoProbeLeft, PathOf
  <2>1. CASE d \notin probes
    BY <2>1 DEF ProbesOK, PathOf
  <2>2. CASE d \in probes
    <3>1. \A e \in io_errors : e.dir # d
      BY DEF ProbesOK
    <3>2. PICK b \in Client : /\ pc[b] = "probed" \/ exit[b] = Interrupted
                              /\ ConfigAt[config[b]] # None
                              /\ ConfigAt[config[b]].paths[at[b]] = d
      BY <2>2, <3>1 DEF StartupInv, NoProbeLeft, PathOf
    <3>3. CASE b = c
      BY <3>2, <3>3 DEF ProbesOK, PathOf
    <3>4. CASE b # c
      BY <1>3, <3>2, <3>4
    <3> QED
      BY <3>3, <3>4
  <2> QED
    BY <2>1, <2>2
<1>8. StartupIndependent'
  <2> SUFFICES ASSUME NEW b \in Client, exit'[b] = 1
               PROVE  LET f == ConfigAt[config'[b]]
                      IN  \/ f = None
                          \/ from_str_validated(f) # "Ok"
                          \/ ~check_release_only_rules(f)
                          \/ \E k \in 1 .. 4 : f.paths[k] \notin usable
                          \/ \E e \in io_errors' : e.client = b /\ e.call = "write"
    BY <1>2 DEF StartupIndependent
  <2>1. CASE b = c
    BY <2>1 DEF OwnOK
  <2>2. CASE b # c
    BY <1>3, <2>2 DEF StartupInv, StartupIndependent, ProbesOK
  <2> QED
    BY <2>1, <2>2
<1> QED
  BY <1>2, <1>4, <1>5, <1>6, <1>7, <1>8 DEF StartupInv

(***************************************************************************)
(* The actions are such steps.                                             *)
(***************************************************************************)
(* Mine: what the invariant says of one process. *)
LEMMA Mine ==
  ASSUME StartupInv, NEW c \in Client
  PROVE  /\ argv \in [Client -> Seq(STRING)] /\ pc \in [Client -> Phase]
         /\ config \in [Client -> Path] /\ at \in [Client -> 1 .. 4]
         /\ exit \in [Client -> {None, 0, 1, 2, 101, Interrupted}]
         /\ probes \subseteq usable /\ io_errors \subseteq ErrorIn
         /\ argv[c] \in Seq(STRING) /\ PathsNamed(argv[c])
         /\ pc[c] = "probed" => PathOf(c) \in usable
         /\ exit[c] # None <=> pc[c] = "exited"
         /\ pc[c] \notin {"args", "exited"} =>
              /\ ConfigAt[config[c]] # None
              /\ from_str_validated(ConfigAt[config[c]]) = "Ok"
         /\ None \notin {0, 1, 2, 101, Interrupted} /\ Interrupted # 1
  BY StartupAssumption DEF StartupInv, TypeOK, ArgsLeft, ProbedUsable, Interrupted, ErrorIn

LEMMA ParseArgHolds ==
  ASSUME StartupInv, NEW c \in Client, ParseArg(c)
  PROVE  StartupInv'
<1> DEFINE args == argv[c]
<1>0. /\ pc[c] = "args" /\ args # <<>> /\ exit[c] = None
      /\ UNCHANGED <<at, usable, logs_ok, probes, io_errors>>
  BY Mine DEF ParseArg, env, disk
<1>1. /\ Tail(args) \in Seq(STRING) /\ PathsNamed(Tail(args))
      /\ Len(args) > 1 => /\ SubSeq(args, 3, Len(args)) \in Seq(STRING)
                          /\ PathsNamed(SubSeq(args, 3, Len(args)))
      /\ (Head(args) = "--config" /\ Len(args) > 1) => args[2] \in Path
  BY <1>0, Mine, ArgsAfter
<1>2. /\ \/ pc' = pc /\ exit' = exit
         \/ pc' = [pc EXCEPT ![c] = "exited"] /\ exit' = [exit EXCEPT ![c] = 2]
      /\ \/ argv' = argv
         \/ argv' = [argv EXCEPT ![c] = Tail(args)]
         \/ Len(args) > 1 /\ argv' = [argv EXCEPT ![c] = SubSeq(args, 3, Len(args))]
      /\ \/ config' = config
         \/ args[2] \in Path /\ config' = [config EXCEPT ![c] = args[2]]
  BY <1>1 DEF ParseArg, Exit, Goto
<1> HIDE DEF args
<1>3. Frame(c)
  <2>1. \E p \in Phase : pc' = [pc EXCEPT ![c] = p]
    BY <1>2, Mine DEF Phase
  <2>2. \E s \in {None, 0, 1, 2, 101, Interrupted} : exit' = [exit EXCEPT ![c] = s]
    BY <1>2, Mine
  <2>3. \E a \in Seq(STRING) : argv' = [argv EXCEPT ![c] = a]
    <3>1. argv = [argv EXCEPT ![c] = args] /\ args \in Seq(STRING)
      BY Mine DEF args
    <3> HIDE DEF args
    <3>2. CASE argv' = argv
      BY <3>1, <3>2
    <3>3. CASE argv' = [argv EXCEPT ![c] = Tail(args)]
      BY <1>1, <3>3
    <3>4. CASE Len(args) > 1 /\ argv' = [argv EXCEPT ![c] = SubSeq(args, 3, Len(args))]
      <4> DEFINE rest == SubSeq(args, 3, Len(args))
      <4>1. rest \in Seq(STRING) /\ argv' = [argv EXCEPT ![c] = rest]
        BY <1>1, <3>4
      <4> HIDE DEF rest
      <4> QED
        BY <4>1
    <3> QED
      BY <1>2, <3>2, <3>3, <3>4
  <2>4. \E p \in Path : config' = [config EXCEPT ![c] = p]
    BY <1>2, Mine
  <2>5. \E n \in 1 .. 4 : at' = [at EXCEPT ![c] = n]
    BY <1>0, Mine
  <2> QED
    BY <1>0, <2>1, <2>2, <2>3, <2>4, <2>5 DEF Frame, env
<1>4. OwnOK(c)
  <2>1. PathsNamed(argv'[c])
    BY <1>1, <1>2, Mine
  <2>2. \/ pc'[c] = "args" /\ exit'[c] = None
        \/ pc'[c] = "exited" /\ exit'[c] = 2
    BY <1>0, <1>2, Mine
  <2> QED
    BY <2>1, <2>2, Mine DEF OwnOK
<1>5. ProbesOK(c)
  BY <1>0, Mine DEF ProbesOK
<1> QED
  BY <1>3, <1>4, <1>5, StepHolds

(* Moved: the shape of the steps after the arguments are parsed. *)
Moves(c, to, s) ==
  /\ to \in Phase /\ s \in {None, 0, 1, 2, 101, Interrupted}
  /\ pc' = [pc EXCEPT ![c] = to]
  /\ exit' = [exit EXCEPT ![c] = s] \/ (exit' = exit /\ s = exit[c])
  /\ at' = at \/ \E n \in 1 .. 4 : at' = [at EXCEPT ![c] = n]
  /\ argv' = argv /\ config' = config /\ UNCHANGED env

LEMMA Moved ==
  ASSUME StartupInv, NEW c \in Client, NEW to, NEW s, Moves(c, to, s)
  PROVE  /\ Frame(c)
         /\ pc'[c] = to /\ exit'[c] = s
         /\ PathsNamed(argv'[c])
<1>1. /\ \E a \in Seq(STRING) : argv' = [argv EXCEPT ![c] = a]
      /\ \E p \in Path : config' = [config EXCEPT ![c] = p]
  BY Mine DEF Moves
<1>2. \E n \in 1 .. 4 : at' = [at EXCEPT ![c] = n]
  BY Mine DEF Moves
<1>3. exit' = [exit EXCEPT ![c] = s] /\ exit'[c] = s
  BY Mine DEF Moves
<1>4. /\ \E p \in Phase : pc' = [pc EXCEPT ![c] = p]
      /\ \E x \in {None, 0, 1, 2, 101, Interrupted} : exit' = [exit EXCEPT ![c] = x]
      /\ UNCHANGED env
  BY <1>3 DEF Moves
<1>5. Frame(c)
  BY <1>1, <1>2, <1>4 DEF Frame
<1> QED
  BY <1>3, <1>5, Mine DEF Moves

LEMMA PrepareHolds ==
  ASSUME StartupInv, NEW c \in Client, Prepare(c)
  PROVE  StartupInv'
<1> DEFINE f == ConfigAt[config[c]]
<1>0. /\ pc[c] = "args" /\ exit[c] = None
      /\ UNCHANGED <<argv, config, at, usable, logs_ok, probes, io_errors>>
  BY Mine DEF Prepare, env, disk
<1>1. \E to \in Phase, s \in {None, 0, 1, 2, 101, Interrupted} :
        /\ pc' = [pc EXCEPT ![c] = to] /\ exit' = [exit EXCEPT ![c] = s]
        /\ \/ to = "exited" /\ s = 0
           \/ to = "exited" /\ s = 1 /\ (f = None \/ from_str_validated(f) # "Ok")
           \/ to = "paths" /\ s = None /\ f # None /\ from_str_validated(f) = "Ok"
  <2>1. "exited" \in Phase /\ "paths" \in Phase
    BY DEF Phase
  <2>3. \/ Exit(c, 0, None)
        \/ \E l : Exit(c, 1, l) /\ (f = None \/ from_str_validated(f) # "Ok")
        \/ /\ Goto(c, "paths") /\ UNCHANGED exit
           /\ f # None /\ from_str_validated(f) = "Ok"
    BY DEF Prepare
  <2> HIDE DEF f
  <2> QED
    BY <1>0, <2>1, <2>3, Mine DEF Exit, Goto
<1>2. PICK to \in Phase, s \in {None, 0, 1, 2, 101, Interrupted} :
        /\ pc' = [pc EXCEPT ![c] = to] /\ exit' = [exit EXCEPT ![c] = s]
        /\ \/ to = "exited" /\ s = 0
           \/ to = "exited" /\ s = 1 /\ (f = None \/ from_str_validated(f) # "Ok")
           \/ to = "paths" /\ s = None /\ f # None /\ from_str_validated(f) = "Ok"
  BY <1>1
<1>3. Frame(c) /\ pc'[c] = to /\ exit'[c] = s
      /\ PathsNamed(argv'[c])
  <2>1. Moves(c, to, s)
    BY <1>0, <1>2 DEF Moves, env
  <2> QED
    BY <2>1, Moved
<1>4. OwnOK(c)
  BY <1>0, <1>2, <1>3, Mine DEF OwnOK
<1>5. ProbesOK(c)
  BY <1>0, Mine DEF ProbesOK
<1> QED
  BY <1>3, <1>4, <1>5, StepHolds

LEMMA WriteProbeHolds ==
  ASSUME StartupInv, NEW c \in Client, WriteProbe(c)
  PROVE  StartupInv'
<1>0. /\ pc[c] = "paths" /\ exit[c] = None /\ ConfigAt[config[c]] # None
      /\ from_str_validated(ConfigAt[config[c]]) = "Ok"
      /\ UNCHANGED <<argv, config, at, usable, logs_ok>>
      /\ "probed" \in Phase /\ "exited" \in Phase
  BY Mine DEF WriteProbe, env, Phase
<1>1. CASE /\ PathOf(c) \in usable /\ probes' = probes \cup {PathOf(c)}
           /\ Goto(c, "probed") /\ UNCHANGED <<io_errors, exit>>
  <2>1. Frame(c) /\ pc'[c] = "probed" /\ exit'[c] = None
        /\ PathsNamed(argv'[c])
    <3>1. Moves(c, "probed", None)
      BY <1>0, <1>1 DEF Goto, Moves, env
    <3> QED
      BY <3>1, Moved
  <2>2. OwnOK(c)
    BY <1>0, <1>1, <2>1, Mine DEF OwnOK, PathOf
  <2>3. ProbesOK(c)
    BY <1>0, <1>1, <2>1, Mine DEF ProbesOK, PathOf
  <2> QED
    BY <2>1, <2>2, <2>3, StepHolds
<1>2. CASE /\ PathOf(c) \in usable /\ probes' \in {probes, probes \cup {PathOf(c)}}
           /\ IoError(c, "write") /\ Exit(c, 1, "CONFIG_INVALID")
  <2>1. Frame(c) /\ pc'[c] = "exited" /\ exit'[c] = 1
        /\ PathsNamed(argv'[c])
    <3>1. Moves(c, "exited", 1)
      BY <1>0, <1>2 DEF Goto, Exit, Moves, env
    <3> QED
      BY <3>1, Moved
  <2>2. PICK e \in ErrorIn : /\ e.client = c /\ e.dir = PathOf(c) /\ e.call = "write"
                            /\ io_errors' = io_errors \cup {e}
    BY <1>2 DEF IoError, ErrorIn
  <2>3. OwnOK(c)
    BY <2>1, <2>2, Mine DEF OwnOK
  <2>4. ProbesOK(c)
    BY <1>0, <1>2, <2>2, Mine DEF ProbesOK
  <2> QED
    BY <2>1, <2>3, <2>4, StepHolds
<1>3. CASE /\ PathOf(c) \notin usable /\ Exit(c, 1, "CONFIG_INVALID")
           /\ UNCHANGED <<probes, io_errors>>
  <2>1. Frame(c) /\ pc'[c] = "exited" /\ exit'[c] = 1
        /\ PathsNamed(argv'[c])
    <3>1. Moves(c, "exited", 1)
      BY <1>0, <1>3 DEF Goto, Exit, Moves, env
    <3> QED
      BY <3>1, Moved
  <2>2. \E k \in 1 .. 4 : ConfigAt[config'[c]].paths[k] \notin usable
    BY <1>0, <1>3, Mine DEF PathOf
  <2>3. OwnOK(c)
    BY <2>1, <2>2, Mine DEF OwnOK
  <2>4. ProbesOK(c)
    BY <1>0, <1>3, Mine DEF ProbesOK
  <2> QED
    BY <2>1, <2>3, <2>4, StepHolds
<1> QED
  BY <1>1, <1>2, <1>3 DEF WriteProbe, disk

LEMMA RemoveProbeHolds ==
  ASSUME StartupInv, NEW c \in Client, RemoveProbe(c)
  PROVE  StartupInv'
<1>0. /\ pc[c] = "probed" /\ exit[c] = None /\ ConfigAt[config[c]] # None
      /\ from_str_validated(ConfigAt[config[c]]) = "Ok"
      /\ UNCHANGED <<argv, config, exit, usable, logs_ok>>
      /\ \/ probes' = probes \ {PathOf(c)} /\ io_errors' = io_errors
         \/ probes' = probes /\ IoError(c, "remove")
  BY Mine DEF RemoveProbe, env
<1>1. \E n \in 1 .. 4 : at' = [at EXCEPT ![c] = n]
  <2>1. at[c] \in 1 .. 4 /\ (at[c] # 4 => at[c] + 1 \in 1 .. 4)
    BY Mine
  <2> QED
    BY <2>1, Mine DEF RemoveProbe
<1>2. \E to \in {"checked", "paths"} : to \in Phase /\ pc' = [pc EXCEPT ![c] = to]
  BY DEF RemoveProbe, Goto, Phase
<1>3. /\ Frame(c) /\ pc'[c] \in {"checked", "paths"} /\ exit'[c] = None
      /\ PathsNamed(argv'[c])
  <2>1. \E to \in {"checked", "paths"} : Moves(c, to, None)
    BY <1>0, <1>1, <1>2 DEF Moves, env
  <2> QED
    BY <2>1, Moved
<1>4. OwnOK(c)
  BY <1>0, <1>3, Mine DEF OwnOK
<1>5. ProbesOK(c)
  <2>1. CASE probes' = probes \ {PathOf(c)} /\ io_errors' = io_errors
    BY <1>0, <2>1, Mine DEF ProbesOK
  <2>2. CASE probes' = probes /\ IoError(c, "remove")
    <3>1. PICK e \in ErrorIn : e.dir = PathOf(c) /\ io_errors' = io_errors \cup {e}
      BY <1>0, <2>2, Mine DEF IoError, ErrorIn
    <3> QED
      BY <1>0, <2>2, <3>1, Mine DEF ProbesOK
  <2> QED
    BY <1>0, <2>1, <2>2
<1> QED
  BY <1>3, <1>4, <1>5, StepHolds

LEMMA StartHolds ==
  ASSUME StartupInv, NEW c \in Client, Start(c)
  PROVE  StartupInv'
<1> DEFINE f == ConfigAt[config[c]]
<1>0. /\ pc[c] = "checked" /\ exit[c] = None
      /\ f # None /\ from_str_validated(f) = "Ok"
      /\ UNCHANGED <<argv, config, at, usable, logs_ok, probes, io_errors>>
      /\ "exited" \in Phase /\ "ready" \in Phase
  BY Mine DEF Start, env, disk, Phase
<1>1. \/ ~check_release_only_rules(f) /\ Exit(c, 1, "CONFIG_INVALID")
      \/ Exit(c, 101, None)
      \/ Goto(c, "ready") /\ UNCHANGED exit
  BY DEF Start
<1> HIDE DEF f
<1>2. /\ Frame(c) /\ PathsNamed(argv'[c])
      /\ \/ pc'[c] = "exited" /\ exit'[c] = 1 /\ ~check_release_only_rules(f)
         \/ pc'[c] = "exited" /\ exit'[c] = 101
         \/ pc'[c] = "ready" /\ exit'[c] = None
  <2>1. \/ Moves(c, "exited", 1) /\ ~check_release_only_rules(f)
        \/ Moves(c, "exited", 101)
        \/ Moves(c, "ready", None)
    BY <1>0, <1>1 DEF Exit, Goto, Moves, env
  <2> QED
    BY <2>1, Moved
<1>3. OwnOK(c)
  BY <1>0, <1>2, Mine DEF OwnOK, f
<1>4. ProbesOK(c)
  BY <1>0, Mine DEF ProbesOK
<1> QED
  BY <1>2, <1>3, <1>4, StepHolds

LEMMA AwaitHolds ==
  ASSUME StartupInv, NEW c \in Client, AwaitSignal(c) \/ Shutdown(c)
  PROVE  StartupInv'
<1>0. /\ pc[c] \in {"ready", "shutdown"} /\ exit[c] = None
      /\ ConfigAt[config[c]] # None
      /\ from_str_validated(ConfigAt[config[c]]) = "Ok"
      /\ UNCHANGED <<argv, config, at, usable, logs_ok, probes, io_errors>>
      /\ "exited" \in Phase /\ "idle" \in Phase
  BY Mine DEF AwaitSignal, Shutdown, env, disk, Phase
<1>1. \/ Exit(c, 0, None)
      \/ Goto(c, "idle") /\ UNCHANGED exit
  BY DEF AwaitSignal, Shutdown
<1>2. /\ Frame(c) /\ PathsNamed(argv'[c])
      /\ \/ pc'[c] = "exited" /\ exit'[c] = 0
         \/ pc'[c] = "idle" /\ exit'[c] = None
  <2>1. Moves(c, "exited", 0) \/ Moves(c, "idle", None)
    BY <1>0, <1>1 DEF Exit, Goto, Moves, env
  <2> QED
    BY <2>1, Moved
<1>3. OwnOK(c)
  BY <1>0, <1>2, Mine DEF OwnOK
<1>4. ProbesOK(c)
  BY <1>0, Mine DEF ProbesOK
<1> QED
  BY <1>2, <1>3, <1>4, StepHolds

LEMMA Ctrl_C_Holds ==
  ASSUME StartupInv, NEW c \in Client, Ctrl_C(c)
  PROVE  StartupInv'
<1>0. /\ pc[c] # "exited" /\ exit[c] = None
      /\ UNCHANGED <<argv, config, at, usable, logs_ok, probes, io_errors>>
      /\ "exited" \in Phase /\ "shutdown" \in Phase
  BY Mine DEF Ctrl_C, env, disk, Phase
<1>1. \/ pc[c] # "idle" /\ Exit(c, Interrupted, None)
      \/ pc[c] = "idle" /\ Goto(c, "shutdown") /\ UNCHANGED exit
  BY DEF Ctrl_C
<1>2. /\ Frame(c) /\ PathsNamed(argv'[c])
      /\ \/ pc'[c] = "exited" /\ exit'[c] = Interrupted
         \/ pc[c] = "idle" /\ pc'[c] = "shutdown" /\ exit'[c] = None
  <2>1. \/ Moves(c, "exited", Interrupted)
        \/ pc[c] = "idle" /\ Moves(c, "shutdown", None)
    BY <1>0, <1>1 DEF Exit, Goto, Moves, env
  <2> QED
    BY <2>1, Moved
<1>3. OwnOK(c)
  BY <1>0, <1>2, Mine DEF OwnOK
<1>4. ProbesOK(c)
  BY <1>0, <1>2, Mine DEF ProbesOK
<1> QED
  BY <1>2, <1>3, <1>4, StepHolds

-----------------------------------------------------------------------------
(* StartupStep, StartupInvariant: the invariant holds throughout. *)
LEMMA StartupStep == StartupInv /\ [Next]_vars => StartupInv'
<1> SUFFICES ASSUME StartupInv, [Next]_vars PROVE StartupInv'
  OBVIOUS
<1>1. CASE Next
  BY <1>1, ParseArgHolds, PrepareHolds, WriteProbeHolds, RemoveProbeHolds,
     StartHolds, AwaitHolds, Ctrl_C_Holds
  DEF Next, Run
<1>2. CASE UNCHANGED vars
  BY <1>2
  DEF vars, StartupInv, TypeOK, ArgsLeft, ProbedUsable, NoProbeLeft, PathOf, StartupIndependent
<1> QED
  BY <1>1, <1>2

LEMMA StartupInvariant == Spec => []StartupInv
  BY StartupInit, StartupStep, PTL DEF Spec

(* A process is past the loading of its configuration only with one that   *)
(* passed, and has an exit status exactly when it has exited.              *)
THEOREM StartupTypeCorrect == Spec => []TypeOK
<1>1. StartupInv => TypeOK
  BY DEF StartupInv
<1> QED
  BY <1>1, StartupInvariant, PTL

(* However many processes check the same directories, a probe file stays   *)
(* behind only where one was killed between writing and removing it, or    *)
(* where its write or its removal failed.                                  *)
THEOREM ProbesRemoved == Spec => []NoProbeLeft
<1>1. StartupInv => NoProbeLeft
  BY DEF StartupInv
<1> QED
  BY <1>1, StartupInvariant, PTL

(* No process is refused because of another one, or of what it left.       *)
THEOREM RefusalsAreOwn == Spec => []StartupIndependent
<1>1. StartupInv => StartupIndependent
  BY DEF StartupInv
<1> QED
  BY <1>1, StartupInvariant, PTL
=============================================================================
