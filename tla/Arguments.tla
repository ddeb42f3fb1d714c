------------------------------ MODULE Arguments ------------------------------
(***************************************************************************)
(* The flags of the kcp process (envtest/internal/process/arguments.go):   *)
(* what the test configured per flag, combined with the defaults when the  *)
(* process is launched.                                                    *)
(*                                                                         *)
(* Go tells a nil slice from an empty one, and so do the flags: a slice is *)
(* the set of its one value, nil the empty set.  Flags are numbers, in the *)
(* order of their names.                                                   *)
(***************************************************************************)
EXTENDS Integers, Sequences, SequencesExt

Nil == {}
Slice(vals) == {vals}

\* The elements of a slice; nil has none.
Elements(slice) == IF slice = Nil THEN <<>> ELSE CHOOSE vals \in slice : TRUE

\* append(slice, vals...): nil stays nil when there is nothing to append.
Extend(slice, vals) ==
  IF slice = Nil /\ vals = <<>> THEN Nil ELSE Slice(Elements(slice) \o vals)

\* The kinds of Arg; a FuncArg is what its function returns.
UserArg(slice) == [kind |-> "user", slice |-> slice]
DefaultedArg(slice) == [kind |-> "defaulted", slice |-> slice]
FuncArg(slice) == [kind |-> "func", slice |-> slice]
DontPass == [kind |-> "dontPass", slice |-> Nil]
PassAsName == [kind |-> "passAsName", slice |-> Slice(<<>>)]

\* Arg.Append
AppendValues(arg, vals) ==
  CASE arg.kind \in {"user", "defaulted"} -> [arg EXCEPT !.slice = Extend(@, vals)]
    [] arg.kind = "dontPass" -> UserArg(Extend(Nil, vals))
    [] arg.kind \in {"passAsName", "func"} -> arg

\* Arg.Get
Values(arg, defaults) ==
  IF arg.kind = "defaulted"
  THEN Extend(Extend(Nil, Elements(defaults)), Elements(arg.slice))
  ELSE arg.slice

-----------------------------------------------------------------------------
(* Arguments: a function from the flags that were configured.              *)

EmptyArguments == [key \in {} |-> DontPass]

SetRaw(args, key, arg) ==
  [k \in DOMAIN args \union {key} |-> IF k = key THEN arg ELSE args[k]]

GetArg(args, key) == IF key \in DOMAIN args THEN args[key] ELSE DefaultedArg(Nil)

Enable(args, key) == SetRaw(args, key, PassAsName)
Disable(args, key) == SetRaw(args, key, DontPass)
Set(args, key, vals) == SetRaw(args, key, UserArg(Extend(Nil, vals)))

AppendArg(args, key, vals) ==
  LET arg == IF key \in DOMAIN args THEN args[key] ELSE DefaultedArg(Slice(<<>>))
  IN  SetRaw(args, key, AppendValues(arg, vals))

AppendNoDefaults(args, key, vals) ==
  LET arg == IF key \in DOMAIN args THEN args[key] ELSE UserArg(Slice(<<>>))
  IN  SetRaw(args, key, AppendValues(arg, vals))

\* "--key" is <<key>>, "--key=val" is <<key, val>>; nil is not passed.
Rendered(key, slice) ==
  IF slice = Slice(<<>>) THEN <<  <<key>>  >>
  ELSE [i \in DOMAIN Elements(slice) |-> <<key, Elements(slice)[i]>>]

\* The flags of both, sorted, each with its defaults if it has some.
AsStrings(args, defaults) ==
  LET keys == SetToSortSeq(DOMAIN defaults \union DOMAIN args, <)
      Default(key) == IF key \in DOMAIN defaults THEN defaults[key] ELSE Nil
  IN  FlattenSeq([i \in DOMAIN keys |->
        Rendered(keys[i], Values(GetArg(args, keys[i]), Default(keys[i])))])
=============================================================================
