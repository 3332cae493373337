------------------------------- MODULE MCMenu -------------------------------
(***************************************************************************)
(* Instances of Menu for TLC.  The tree is                                 *)
(*      1 directory with the leaves 2 and 3 (3 too big for the editor)     *)
(*      4 leaf                                                             *)
(*      5 leaf that should_skip_entry() hides                              *)
(***************************************************************************)
EXTENDS Menu

MCEntries == 1..5
MCParent == [e \in MCEntries |-> IF e \in {2, 3} THEN 1 ELSE None]
MCSkipped == {5}
MCTooBig == {3}

Entry(e) == [kind |-> "entry", arg |-> e]
Under(d) == [kind |-> "under", arg |-> d]
Index(n) == [kind |-> "index", arg |-> n]

Base == [default |-> NoRequest, timeout |-> 1500, quiet |-> FALSE,
         remember |-> FALSE, editor |-> TRUE, secure |-> FALSE,
         measure |-> FALSE, tpm |-> FALSE, hashPanic |-> TRUE, gui |-> TRUE, mouse |-> TRUE,
         fwui |-> TRUE, shell |-> TRUE]

\* Every kind of default with every kind of timeout.
SelectionConfigs ==
    {[Base EXCEPT !.default = d, !.timeout = t, !.quiet = q, !.remember = r] :
        d \in {NoRequest, Entry(1), Entry(2), Under(1), Index(0), Index(2), Index(9)},
        t \in {Unset, NoTimeout, 0, 1500}, q \in BOOLEAN, r \in BOOLEAN}

\* What the firmware and the administrator allow, on a default that boots.
FirmwareConfigs ==
    {[Base EXCEPT !.default = Entry(4), !.editor = ed, !.secure = sb, !.measure = m,
                  !.tpm = tpm, !.hashPanic = ~m, !.mouse = ms, !.gui = ms, !.fwui = ms, !.shell = ms] :
        ed \in BOOLEAN, sb \in BOOLEAN, m \in BOOLEAN, tpm \in BOOLEAN,
        ms \in BOOLEAN}

\* Timeouts from every source, with a default that boots.
CountdownConfigs ==
    {[Base EXCEPT !.default = Entry(2), !.timeout = t, !.quiet = q] :
        t \in {Unset, 1500, 2000}, q \in BOOLEAN}

MCConfigs == SelectionConfigs \cup FirmwareConfigs \cup CountdownConfigs

\* Measured boot that asks the user about files whose hash does not match.
MeasuredConfigs ==
    {[Base EXCEPT !.default = Entry(4), !.measure = TRUE, !.tpm = TRUE, !.hashPanic = FALSE]}

Clean == [oneShotEntry |-> NoRequest, defaultEntry |-> NoRequest, last |-> NoRequest,
          oneShotTimeout |-> Unset, timeout |-> Unset, selected |-> None]
MCStartVars ==
    {Clean, [Clean EXCEPT !.last = Under(1)],
     [Clean EXCEPT !.defaultEntry = Entry(3), !.timeout = MenuHidden]}

MCOsRequests ==
    {[entry |-> Entry(2), timeout |-> MenuDisabled],
     [entry |-> Under(1), timeout |-> Unset],
     [entry |-> NoRequest, timeout |-> 0],
     [entry |-> NoRequest, timeout |-> MenuHidden],
     [entry |-> NoRequest, timeout |-> Junk]}

\* A default_entry path that leads nowhere, for a quiet menu with no timeout.
QuietConfigs == {[Base EXCEPT !.default = Under(1), !.timeout = NoTimeout, !.quiet = TRUE]}
=============================================================================
