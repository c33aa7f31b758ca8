--------------------------- MODULE FieldCatalogue ---------------------------
(***************************************************************************)
(* The fields a sketch can select (src/src/dsmr3/fields3.h).  The order is *)
(* that of a sketch which selects them all: the first field with the id of *)
(* a line takes it.                                                        *)
(***************************************************************************)
EXTENDS ValueDecoder

ASSUME WordRangeAssumption == WordRange \in Nat /\ WordRange % 2^16 = 0

\* Values of the integer types a field can have.
uint8_t  == 2^8
uint16_t == 2^16
uint32_t == WordRange

\* DEFINE_FIELD: type is the template of the field, the rest its arguments.
Str(name, id, min, max) ==
  [name |-> name, id |-> id, type |-> "StringField", min |-> min, max |-> max]

Raw(name, id) == [name |-> name, id |-> id, type |-> "RawField"]

Stamp(name, id) == [name |-> name, id |-> id, type |-> "TimestampField"]

Fixed(name, id, unit) ==
  [name |-> name, id |-> id, type |-> "FixedField", unit |-> Text(unit)]

Stamped(type, name, id, unit) ==
  [name |-> name, id |-> id, type |-> type, unit |-> Text(unit)]

Integer(type, name, id, range) ==
  [name |-> name, id |-> id, type |-> type, unit |-> NoUnit, range |-> range]

Identification == <<255, 255, 255, 255, 255, 255>>

-----------------------------------------------------------------------------
GeneralField == <<
  Raw("identification", Identification),
  Str("p1_version", ObisId(1, 3, 0, 2, 8), 1, 2),
  Str("p1_version_be", ObisId(0, 0, 96, 1, 4), 0, 96),
  Fixed("peak_pwr_last_q", ObisId(1, 0, 1, 4, 0), "kW"),
  Stamped("TimestampedFixedField", "highest_peak_pwr", ObisId(1, 0, 1, 6, 0), "kW"),
  Raw("highest_peak_pwr_13mnd", ObisId(0, 0, 98, 1, 0)),
  Stamp("timestamp", ObisId(0, 0, 1, 0, 0)),
  Str("equipment_id", ObisId(0, 0, 96, 1, 1), 0, 96)>>

EnergyField == <<
  Fixed("energy_delivered_total", ObisId(1, 0, 1, 8, 0), "kWh"),
  Fixed("energy_returned_total", ObisId(1, 0, 2, 8, 0), "kWh"),
  Fixed("reactive_energy_q1", ObisId(1, 0, 5, 8, 0), "kVArh"),
  Fixed("reactive_energy_q2", ObisId(1, 0, 6, 8, 0), "kVArh"),
  Fixed("reactive_energy_q3", ObisId(1, 0, 7, 8, 0), "kVArh"),
  Fixed("reactive_energy_q4", ObisId(1, 0, 8, 8, 0), "kVArh"),
  Fixed("reactive_power_import", ObisId(1, 0, 3, 7, 0), "kVAr"),
  Fixed("reactive_power_export", ObisId(1, 0, 4, 7, 0), "kVAr"),
  Fixed("reactive_power_l1_import", ObisId(1, 0, 23, 7, 0), "kVAr"),
  Fixed("reactive_power_l1_export", ObisId(1, 0, 24, 7, 0), "kVAr"),
  Fixed("reactive_power_l2_import", ObisId(1, 0, 43, 7, 0), "kVAr"),
  Fixed("reactive_power_l2_export", ObisId(1, 0, 44, 7, 0), "kVAr"),
  Fixed("reactive_power_l3_import", ObisId(1, 0, 63, 7, 0), "kVAr"),
  Fixed("reactive_power_l3_export", ObisId(1, 0, 64, 7, 0), "kVAr"),
  Fixed("reactive_energy_total_import", ObisId(1, 0, 3, 8, 0), "kVArh"),
  Fixed("reactive_energy_total_export", ObisId(1, 0, 4, 8, 0), "kVArh"),
  Fixed("energy_delivered_tariff1", ObisId(1, 0, 1, 8, 1), "kWh"),
  Fixed("energy_delivered_tariff2", ObisId(1, 0, 1, 8, 2), "kWh"),
  Fixed("energy_returned_tariff1", ObisId(1, 0, 2, 8, 1), "kWh"),
  Fixed("energy_returned_tariff2", ObisId(1, 0, 2, 8, 2), "kWh")>>

GridField == <<
  Str("electricity_tariff", ObisId(0, 0, 96, 14, 0), 4, 4),
  Fixed("power_delivered", ObisId(1, 0, 1, 7, 0), "kW"),
  Fixed("power_returned", ObisId(1, 0, 2, 7, 0), "kW"),
  Fixed("electricity_threshold", ObisId(0, 0, 17, 0, 0), "kW"),
  Integer("IntField", "electricity_switch_position", ObisId(0, 0, 96, 3, 10), uint8_t),
  Integer("IntField", "electricity_failures", ObisId(0, 0, 96, 7, 21), uint32_t),
  Integer("IntField", "electricity_long_failures", ObisId(0, 0, 96, 7, 9), uint32_t),
  Raw("electricity_failure_log", ObisId(1, 0, 99, 97, 0)),
  Integer("IntField", "electricity_sags_l1", ObisId(1, 0, 32, 32, 0), uint32_t),
  Integer("IntField", "electricity_sags_l2", ObisId(1, 0, 52, 32, 0), uint32_t),
  Integer("IntField", "electricity_sags_l3", ObisId(1, 0, 72, 32, 0), uint32_t),
  Integer("IntField", "electricity_swells_l1", ObisId(1, 0, 32, 36, 0), uint32_t),
  Integer("IntField", "electricity_swells_l2", ObisId(1, 0, 52, 36, 0), uint32_t),
  Integer("IntField", "electricity_swells_l3", ObisId(1, 0, 72, 36, 0), uint32_t),
  Str("message_short", ObisId(0, 0, 96, 13, 1), 0, 16),
  Str("message_long", ObisId(0, 0, 96, 13, 0), 0, 2048)>>

\* Voltage, current and power of a phase, with their ids' third bytes.
PhaseField(l, voltage, current, delivered, returned) == <<
  Fixed("voltage_l" \o l, ObisId(1, 0, voltage, 7, 0), "V"),
  Fixed("current_l" \o l, ObisId(1, 0, current, 7, 0), "A"),
  Fixed("power_delivered_l" \o l, ObisId(1, 0, delivered, 7, 0), "kW"),
  Fixed("power_returned_l" \o l, ObisId(1, 0, returned, 7, 0), "kW")>>

\* The device at M-Bus channel n.
MbusField(n, unit) ==
  LET mbus == "mbus" \o Decimal[n + 1] \o "_"
  IN  <<Integer("OptionalMbusIntField", mbus \o "device_type", ObisId(0, n, 24, 1, 0), uint16_t),
        Str(mbus \o "equipment_id_tc", ObisId(0, n, 96, 1, 0), 0, 96),
        Str(mbus \o "equipment_id_ntc", ObisId(0, n, 96, 1, 1), 0, 96),
        Integer("IntField", mbus \o "valve_position", ObisId(0, n, 24, 4, 0), uint8_t),
        Stamped("OptionalMbusTimestampedFixedField", mbus \o "delivered",
                ObisId(0, n, 24, 2, 1), unit),
        Stamped("TimestampedFixedField", mbus \o "delivered_ntc",
                ObisId(0, n, 24, 2, 3), "m3"),
        Stamped("DoubleLineTimestampedFixedField", mbus \o "delivered_dbl",
                ObisId(0, n, 24, 3, 0), "m3")>>

Catalogue ==
  GeneralField \o EnergyField \o GridField
    \o PhaseField("1", 32, 31, 21, 22)
    \o PhaseField("2", 52, 51, 41, 42)
    \o PhaseField("3", 72, 71, 61, 62)
    \o MbusField(1, "m3") \o MbusField(2, "GJ") \o MbusField(3, "m3") \o MbusField(4, "m3")
=============================================================================
