---------------------------- MODULE MCControlPlane ----------------------------
(* A small instance of ControlPlane for TLC, and the flags of its processes *)
(* compared with what arguments.go says of them.                           *)
EXTENDS ControlPlane, Arguments

Flags == 1..2
SomeValues == {<<>>, <<"a">>, <<"b">>, <<"a", "b">>}
SomeSlices == {Nil} \union {Slice(vals) : vals \in SomeValues}
SomeDefaults == UNION {[flags -> SomeSlices] : flags \in SUBSET Flags}

\* Every way to configure one flag, on top of one earlier call or none.
Configured(key) ==
  LET Calls(args) ==
        {Enable(args, key), Disable(args, key)}
        \union {Set(args, key, vals) : vals \in SomeValues}
        \union {AppendArg(args, key, vals) : vals \in SomeValues}
        \union {AppendNoDefaults(args, key, vals) : vals \in SomeValues}
        \union {SetRaw(args, key, FuncArg(slice)) : slice \in SomeSlices}
      once == Calls(EmptyArguments)
  IN  {EmptyArguments} \union once \union UNION {Calls(args) : args \in once}

\* What is passed of one flag.
Passed(args, key, defaults) ==
  SelectSeq(AsStrings(args, defaults), LAMBDA flag : flag[1] = key)

\* "Any flag in defaults that's not in Arguments will be present in the output"
\* (arguments.go:112), if it has a value: an empty default is not passed.
ASSUME DefaultsArePassed ==
  \A defaults \in SomeDefaults : \A key \in DOMAIN defaults :
    Passed(EmptyArguments, key, defaults)
      = [i \in DOMAIN Elements(defaults[key]) |-> <<key, Elements(defaults[key])[i]>>]

\* Append adds its values after whatever the flag had, its defaults included
\* (arguments.go:171-176), unless it is name-only or computed; configuring a
\* flag leaves the others alone.
ASSUME AppendAppends ==
  \A defaults \in SomeDefaults, args \in Configured(1), vals \in SomeValues \ {<<>>} :
    LET appended == AppendArg(args, 1, vals)
        before == Passed(args, 1, defaults)
    IN  /\ GetArg(args, 1).kind \in {"user", "defaulted", "dontPass"} =>
             Passed(appended, 1, defaults)
               = SelectSeq(before, LAMBDA flag : Len(flag) = 2)
                 \o [i \in DOMAIN vals |-> <<1, vals[i]>>]
        /\ GetArg(args, 1).kind \in {"passAsName", "func"} => appended = args
        /\ Passed(args, 2, defaults) = Passed(EmptyArguments, 2, defaults)

\* Whatever came before, Set, Enable and Disable decide alone
\* (arguments.go:158-169, 196-201).
ASSUME LastCallDecides ==
  \A defaults \in SomeDefaults, args \in Configured(1), vals \in SomeValues :
    /\ Passed(Disable(args, 1), 1, defaults) = <<>>
    /\ Passed(Enable(args, 1), 1, defaults) = << <<1>> >>
    /\ Passed(Set(args, 1, vals), 1, defaults) = [i \in DOMAIN vals |-> <<1, vals[i]>>]
=============================================================================
