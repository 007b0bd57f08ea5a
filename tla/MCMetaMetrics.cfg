\* Lists of up to two metas with up to two objects and up to three bytes
\* each, summed at a width of two bits, so the byte sums wrap.
CONSTANTS
    MaxTotalObjects = 2
    MaxSize = 3
    MaxMetas = 2
    UintWidth = 2

SPECIFICATION Spec
INVARIANT MetricsAreTotals
