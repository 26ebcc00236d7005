------------------------------- MODULE MCFiles -------------------------------
EXTENDS Files, TLC

CONSTANTS t1, t2, t3, a, b

MCThreads == {t1, t2}
MCNames == {a, b}
\* O_EXCL with O_CREAT, with and without O_TRUNC, and O_EXLOCK on a file that exists.
MCOpenFlags ==
    LET F(mode, create, excl_, trunc, exlock) ==
            [mode |-> mode, create |-> create, excl |-> excl_, trunc |-> trunc, exlock |-> exlock]
    IN  {F("RDWR", TRUE, TRUE, FALSE, FALSE), F("RDWR", TRUE, TRUE, TRUE, FALSE),
         F("RDONLY", FALSE, FALSE, FALSE, TRUE)}
MCCalls == AllCalls \ {"read"}
MCOthers == {"dir", "lib"}
=============================================================================
