------------------------------ MODULE MCEngine ------------------------------
(* Small BASIC programs on which TLC explores the engine. *)
EXTENDS EngineProps

St(no, op) ==
  [op |-> op, line |-> no, head |-> TRUE, to |-> <<>>, var |-> "", fn |-> 0, fnend |-> 0,
   subs |-> {}, faults |-> {}, cond |-> FALSE]
Chained(st)         == [st EXCEPT !.head = FALSE]
Goes(no, op, to)    == [St(no, op) EXCEPT !.to = to]
Loop(no, op, v)     == [St(no, op) EXCEPT !.var = v]
Faulty(st, kinds)   == [st EXCEPT !.faults = kinds]
Calls(st, d)        == [st EXCEPT !.fn = d]
Def(no, fnend)      == [St(no, "DEF") EXCEPT !.fnend = fnend]
If(no, subs, to)    == [Goes(no, "IF", to) EXCEPT !.subs = subs]
While(no, v)        == [Loop(no, "FOR", v) EXCEPT !.cond = TRUE]

\* Nested loops left by GOTO, subroutines that may not return, STOP, a loop whose step may
\* overflow and one whose bound calls a function, and a function, called at the prompt only,
\* that calls another and resumes; a single-line function, which keeps its level; a handler:
\*   2 DEF FNA   4 x   6 FNEND
\*   10 FOR I = FNA   20 FOR J WHILE   30 IF THEN GOTO 60 / STOP   40 NEXT J   50 NEXT I
\*   60 GOSUB 100   70 ON GOTO 10, 90, 120, 999   90 ON GOSUB 105, 999
\*   92 ON ERROR GOTO 97   93 STOP   94 x = FND   95 GOTO 999   97 x   98 RESUME 94
\*    100 IF THEN GOTO 60 / GOSUB 60   105 INPUT   110 RETURN
\*   112 DEF FNC   113 x = FNA   114 IF THEN RESUME   116 RESUME   118 FNEND   119 DEF FND = ...   120 END
LoopProg ==
  << Def(2, 3), Faulty(St(4, "PLAIN"), {"num"}), St(6, "FNEND"),
     Calls(Loop(10, "FOR", "I"), 1), Faulty(While(20, "J"), {"arith"}),
     If(30, {"GOTO", "STOP"}, <<60>>), Loop(40, "NEXT", "J"), Faulty(Loop(50, "NEXT", "I"), {"num"}),
     Goes(60, "GOSUB", <<100>>), Goes(70, "ONGOTO", <<10, 90, 120, 999>>),
     Goes(90, "ONGOSUB", <<105, 999>>), Goes(92, "ONERROR", <<97>>), St(93, "STOP"),
     Faulty(Calls(St(94, "PLAIN"), 26), {"badcall", "num"}), Goes(95, "GOTO", <<999>>),
     St(97, "PLAIN"), Goes(98, "RESUME", <<94>>),
     If(100, {"GOTO", "GOSUB"}, <<60>>), St(105, "INPUT"), St(110, "RETURN"),
     Def(112, 25), Calls(St(113, "PLAIN"), 1), If(114, {"RESUME"}, <<>>), St(116, "RESUME"),
     St(118, "FNEND"), Def(119, 0), St(120, "END") >>

\* Two functions, the second recursive and with a handler, called from a LET and from the
\* bounds of a FOR, by a main program with a handler of its own; transfers that try to leave
\* their scope, an END inside a function, a single-line function, and chained statements:
\*   10 DEF FNA  20 x  22 ON GOTO 25, 27, 30  25 x : END  27 RESUME  30 FNEND
\*   40 DEF FNB  42 ON ERROR GOTO 47  44 x = FNB  45 x = FNA  46 IF GOTO 80
\*   47 RESUME 48  48 FNEND   49 IF RESUME   50 ON ERROR GOTO 90   60 FOR I = FNA WHILE
\*   70 x = FNB  72 x : INPUT  75 NEXT I  80 GOTO 100
\*   90 x   92 IF RESUME  94 RESUME 80
\*   95 GOTO 20   100 IF GOTO 20 / GOSUB 20 / RESUME   103 IF GOTO 100   105 DEF FNC = ...   110 END
CallProg ==
  << Def(10, 7), Faulty(St(20, "PLAIN"), {"num"}), Goes(22, "ONGOTO", <<25, 27, 30>>),
     St(25, "PLAIN"), Chained(St(25, "END")), St(27, "RESUME"), St(30, "FNEND"),
     Def(40, 14), Goes(42, "ONERROR", <<47>>), Faulty(Calls(St(44, "PLAIN"), 8), {"badcall"}),
     Calls(St(45, "PLAIN"), 1), If(46, {"GOTO"}, <<80>>), Goes(47, "RESUME", <<48>>),
     St(48, "FNEND"), If(49, {"RESUME"}, <<>>), Goes(50, "ONERROR", <<90>>),
     [Faulty(Calls(Loop(60, "FOR", "I"), 1), {"arith"}) EXCEPT !.cond = TRUE],
     Calls(St(70, "PLAIN"), 8), St(72, "PLAIN"), Chained(Faulty(St(72, "INPUT"), {"num", "fatal"})),
     Loop(75, "NEXT", "I"), Goes(80, "GOTO", <<100>>),
     Faulty(St(90, "PLAIN"), {"fatal"}), If(92, {"RESUME"}, <<>>),
     Goes(94, "RESUME", <<80>>), Goes(95, "GOTO", <<20>>),
     If(100, {"GOTO", "GOSUB", "RESUME"}, <<20>>), If(103, {"GOTO"}, <<100>>), Def(105, 0), St(110, "END") >>
=============================================================================
