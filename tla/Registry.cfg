\* Three printers: enough to use up the only suffix, or to delete a printer and
\* reuse its id twice; one job to outlive its printer's deletion; two ports for
\* devices of one id.
CONSTANTS
    Names <- MCNames
    Fields <- MCFields
    SuffixLimit = 3
    Ports = {"usb1", "usb2"}
    MaxPrinters = 3
    MaxJobs = 1
SPECIFICATION Spec
INVARIANTS TypeOK ViewsAgree JobsFindTheirPrinter NoGhostDevice
PROPERTY PathsAreKept
\* The daemon may have ended.
CHECK_DEADLOCK FALSE
