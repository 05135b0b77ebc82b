------------------------------ MODULE Options ------------------------------
(***************************************************************************)
(* The options of a server: set_option and process_command_line_arguments  *)
(* of tinyweb.c, which collect them, and the loops of mg_start that take   *)
(* them over.  A setting is a name and a value; the lines and arguments    *)
(* that are skipped or end the program at once are left out.               *)
(***************************************************************************)
EXTENDS Integers, Sequences, SequencesExt

CONSTANT MaxOptions    \* MAX_OPTIONS: the length of the array of pointers

\* The names mg_start knows and their defaults; 0 is none.
Defaults == [a |-> 7, b |-> 0, r |-> 0]

\* used pointers are taken; the name, the value and the terminator must fit.
HasRoom(used) == used < MaxOptions - 3

\* set_option.
SetOption(st, s) ==
  IF st.died THEN st
  ELSE IF HasRoom(st.used - 1)
  THEN [st EXCEPT !.options = Append(@, s), !.used = @ + 2]
  ELSE [st EXCEPT !.died = TRUE]

\* Mutant: the command line is read first.
SourcesLineFirst(file, line) == line \o file

\* The configuration file is read first, then the command line.
Sources(file, line) == file \o line

\* process_command_line_arguments; used counts the terminator.
ProcessArguments(file, line) ==
  FoldLeft(SetOption, [options |-> << >>, used |-> 1, died |-> FALSE],
           Sources(file, line))

Refusal == [refused |-> TRUE]

\* mg_start: a name given again replaces the value, then the defaults are set.
ReadOptions(options) ==
  LET step(config, s) ==
        IF config = Refusal \/ s.name \notin DOMAIN Defaults THEN Refusal
        ELSE [config EXCEPT ![s.name] = s.value]
      given == FoldLeft(step, [n \in DOMAIN Defaults |-> 0], options)
  IN IF given = Refusal THEN Refusal
     ELSE [n \in DOMAIN Defaults |->
             IF given[n] = 0 THEN Defaults[n] ELSE given[n]]
=============================================================================
